---- MODULE Spec2Model ----
(***************************************************************************)
(* Configuration validation of the one-dimensional "sticks" lattice:       *)
(* the schema check, the five section checks and the generic validators    *)
(* they call, as a state machine that takes one configuration through      *)
(* validate().                                                             *)
(*                                                                         *)
(* Python values are tagged records [t |-> class name, v |-> payload]:     *)
(* numbers carry an integer magnitude (a float 2.0 is Float(2)), a bool    *)
(* carries 0 or 1 as Python's int subclass does, a list carries a sequence *)
(* of values, a dict a function from its keys to values.  The top-level    *)
(* dict also carries the insertion order of its keys, which is the order   *)
(* dict.items() iterates in.                                               *)
(***************************************************************************)
EXTENDS Integers, Sequences, FiniteSets, TLC

VARIABLES configuration, pc, raised, executed, call, result

vars == <<configuration, pc, raised, executed, call, result>>

----------------------------------------------------------------------------
(* Bounds of the model.                                                    *)

\* Largest magnitude of a number that appears in an input.
MaxNum == 3

\* Largest length of an array along one axis.
MaxDim == 3

----------------------------------------------------------------------------
(* Python values.                                                          *)

PyInt(n) == [t |-> "int", v |-> n]
PyFloat(n) == [t |-> "float", v |-> n]
PyBool(b) == [t |-> "bool", v |-> IF b THEN 1 ELSE 0]
Str == [t |-> "str", v |-> 0]
NoneVal == [t |-> "NoneType", v |-> 0]
List(s) == [t |-> "list", v |-> s]
Tuple(s) == [t |-> "tuple", v |-> s]
Dict(f) == [t |-> "dict", v |-> f]
ODict(o, f) == [t |-> "dict", order |-> o, v |-> f]

\* isinstance with bool a class of its own, not a subclass of int.
IsInstance_exact(value, dtype) == value.t \in dtype

\* isinstance(value, dtype) with dtype a class or tuple of classes, given as
\* the set of their names; bool is a subclass of int.
IsInstance(value, dtype) ==
    \/ value.t \in dtype
    \/ value.t = "bool" /\ "int" \in dtype

IsNumber(value) == IsInstance(value, {"int", "float"})

\* An int has no bound and a float has one: FloatMax stands for the largest
\* magnitude a float holds, and an int converts to a float when it is within
\* it (the conversion is an OverflowError otherwise).
FloatMax == 100
ToFloat(n) == -FloatMax <= n /\ n <= FloatMax

\* float("inf"), written .inf in a YAML document, is a float above every
\* number.  A sum with it is infinite, inf - inf is not a number, and an
\* ordering comparison with what is not a number is False.  The two stand
\* beyond every number of the inputs and every sum of two of them.
Infinity == 2 * FloatMax
NaN == 10 * FloatMax
IsInf(x) == x.t = "float" /\ x.v = Infinity
Add(x, y) == IF IsInf(x) \/ IsInf(y) THEN Infinity ELSE x.v + y.v
Sub(x, y) ==
    IF IsInf(x) /\ IsInf(y) THEN NaN
    ELSE IF IsInf(x) THEN Infinity
    ELSE IF IsInf(y) THEN -Infinity
    ELSE x.v - y.v
GreaterEqual(a, b) == a # NaN /\ b # NaN /\ a >= b

\* The exception a call ends with: its class, the raise statement it comes
\* from and the field its message names; NoExc stands for a normal return.
Exc(kind, site, name) == [kind |-> kind, site |-> site, name |-> name]
NoExc == Exc("None", "None", "None")

\* The first exception of a sequence of statements' outcomes.
FirstExc(excs) ==
    IF \A i \in 1..Len(excs) : excs[i] = NoExc
        THEN NoExc
    ELSE excs[CHOOSE i \in 1..Len(excs) :
                /\ excs[i] # NoExc
                /\ \A j \in 1..(i - 1) : excs[j] = NoExc]

\* The result of a validator that returns a flag: the flag, or the exception
\* that escaped instead, with the index pairs its message lists, if any.
Ret(flag) == [exc |-> NoExc, flag |-> flag, reported |-> {}]
Raise(kind, site, name) ==
    [exc |-> Exc(kind, site, name), flag |-> FALSE, reported |-> {}]
RaiseRepeated(kind, site, repeated) ==
    [exc |-> Exc(kind, site, "None"), flag |-> FALSE, reported |-> repeated]

\* A call of a validator on its own: the function and its arguments (the
\* ones the function does not take hold None); NoCall when there is none.
\* result holds what the call ended with, Pending before it has.
Invoke(fn, value, dtype, zero, length, shape, texcept) ==
    [fn |-> fn, value |-> value, dtype |-> dtype, zero |-> zero,
     length |-> length, shape |-> shape, texcept |-> texcept]
NoCall == Invoke("None", NoneVal, {}, FALSE, -1, NoneVal, FALSE)
Pending == Raise("Pending", "None", "None")

----------------------------------------------------------------------------
(* latexlattices/lattices/oned_sticks/parameters.py: the schema template.  *)

_TEMPLATE ==
    [box |->
        [position_top |-> {"list"},
         height |-> {"float", "int"},
         width |-> {"float", "int"}],
     box_label |->
        [height |-> {"float", "int"},
         width |-> {"float", "int"}],
     lattice |->
        [offsets |-> {"list"},
         position_end |-> {"list"},
         position_start |-> {"list"},
         vertical_spacing |-> {"float", "int"}],
     lattice_elements |->
        [arrow_height |-> {"float", "int"},
         circle_radius |-> {"float", "int"},
         tick_height |-> {"float", "int"},
         vacancies_visible |-> {"bool"}],
     lattice_parameters |->
        [nmers |-> {"int"},
         nticks |-> {"int"},
         adsorbing |-> {"list"},
         desorbing |-> {"list"},
         fixed |-> {"list"},
         jumping |-> {"list"}]]

----------------------------------------------------------------------------
(* validate/validate_properties.py: the generic validators.                *)

\* The dtype typing.Any of the "jumping" list: isinstance() refuses it.
typing_Any == {"typing.Any"}

\* validate_list without the test of the length.
validate_list_any_length(value, dtype, length, name, texcept) ==
    LET flag0 == value.t = "list"
        checked == flag0 /\ Len(value.v) > 0
        flag1 == \A i \in 1..Len(value.v) : IsInstance(value.v[i], dtype)
        flag == flag0 /\ (checked => flag1)
    IN  IF checked /\ dtype = typing_Any
            THEN Raise("TypeError", "isinstance", name)
        ELSE IF texcept /\ ~flag
            THEN Raise("TypeError", "validate_list", name)
        ELSE Ret(flag)

validate_list(value, dtype, length, name, texcept) ==
    LET flag0 == value.t = "list"
        checked == flag0 /\ Len(value.v) > 0
        flag1 == \A i \in 1..Len(value.v) : IsInstance(value.v[i], dtype)
        flag2 == Len(value.v) = length
        flag == /\ flag0
                /\ (checked => flag1)
                /\ ((flag0 /\ length > -1) => flag2)
    IN  IF checked /\ dtype = typing_Any
            THEN Raise("TypeError", "isinstance", name)
        ELSE IF texcept /\ ~flag
            THEN Raise("TypeError", "validate_list", name)
        ELSE Ret(flag)

\* validate_real_positve with the comparison of zero=False in both cases.
validate_real_positve_strict(value, zero, name, texcept) ==
    LET flag0 == IsInstance(value, {"int", "float"})
        flag == flag0 /\ value.v > 0
    IN  IF texcept /\ ~flag
            THEN Raise("TypeError", "validate_real_positive", name)
        ELSE Ret(flag)

\* validate_real_positve with the comparison of zero=True in both cases.
validate_real_positve_nonstrict(value, zero, name, texcept) ==
    LET flag0 == IsInstance(value, {"int", "float"})
        flag == flag0 /\ value.v >= 0
    IN  IF texcept /\ ~flag
            THEN Raise("TypeError", "validate_real_positive", name)
        ELSE Ret(flag)

\* validate_real_positve with a ValueError for a failed sign policy.
validate_real_positve_value_error(value, zero, name, texcept) ==
    LET flag0 == IsInstance(value, {"int", "float"})
        flag == flag0 /\ (IF zero THEN value.v >= 0 ELSE value.v > 0)
    IN  IF texcept /\ ~flag0
            THEN Raise("TypeError", "validate_real_positive", name)
        ELSE IF texcept /\ ~flag
            THEN Raise("ValueError", "validate_real_positive", name)
        ELSE Ret(flag)

validate_real_positve(value, zero, name, texcept) ==
    LET flag0 == IsInstance(value, {"int", "float"})
        flag == flag0 /\ (IF zero THEN value.v >= 0 ELSE value.v > 0)
    IN  IF texcept /\ ~flag
            THEN Raise("TypeError", "validate_real_positive", name)
        ELSE Ret(flag)

\* validate_int_positive and validate_bool are called by the section checks
\* but their module is not part of the sources at hand: they follow the
\* contract of the type+sign check (a wrong type is a TypeError, a failed
\* sign policy a ValueError).
validate_int_positive(value, zero, name, texcept) ==
    LET flag0 == IsInstance(value, {"int"})
        flag == flag0 /\ (IF zero THEN value.v >= 0 ELSE value.v > 0)
    IN  IF texcept /\ ~flag0
            THEN Raise("TypeError", "validate_int_positive", name)
        ELSE IF texcept /\ ~flag
            THEN Raise("ValueError", "validate_int_positive", name)
        ELSE Ret(flag)

validate_bool(value, name, texcept) ==
    LET flag == IsInstance(value, {"bool"})
    IN  IF texcept /\ ~flag
            THEN Raise("TypeError", "validate_bool", name)
        ELSE Ret(flag)

----------------------------------------------------------------------------
(* latexlattices/validate/validate_general.py: the type check and the      *)
(* type+sign checks of a scalar.                                           *)

vgeneral_validate_type(value, dtype, texcept) ==
    LET flag == IsInstance(value, dtype)
    IN  IF ~flag /\ texcept
            THEN Raise("TypeError", "validate_type", "None")
        ELSE Ret(flag)

\* vgeneral.validate_type_negative with <= whatever zero is.
vgeneral_validate_type_negative_nonstrict(value, dtype, zero, texcept) ==
    LET checked == vgeneral_validate_type(value, dtype, texcept)
        flag == value.v <= 0
    IN  IF checked.exc # NoExc \/ ~checked.flag
            THEN checked
        ELSE IF ~flag /\ texcept
            THEN Raise("ValueError", "validate_type_negative", "None")
        ELSE Ret(flag)

vgeneral_validate_type_negative(value, dtype, zero, texcept) ==
    LET checked == vgeneral_validate_type(value, dtype, texcept)
        flag == IF zero THEN value.v <= 0 ELSE value.v < 0
    IN  IF checked.exc # NoExc \/ ~checked.flag
            THEN checked
        ELSE IF ~flag /\ texcept
            THEN Raise("ValueError", "validate_type_negative", "None")
        ELSE Ret(flag)

vgeneral_validate_type_positive(value, dtype, zero, texcept) ==
    LET checked == vgeneral_validate_type(value, dtype, texcept)
        flag == IF zero THEN value.v >= 0 ELSE value.v > 0
    IN  IF checked.exc # NoExc \/ ~checked.flag
            THEN checked
        ELSE IF ~flag /\ texcept
            THEN Raise("ValueError", "validate_type_positive", "None")
        ELSE Ret(flag)

----------------------------------------------------------------------------
(* numpy arrays: the element type, the shape and the elements in row-major *)
(* order; the element type is "int" or "float" and equals the Python class *)
(* of the same name when array.dtype is compared with it.                  *)

NdArray(dtype, shape, data) ==
    [t |-> "ndarray", dtype |-> dtype, shape |-> shape, v |-> data]

\* array[i, j] of a two-dimensional array, i and j counted from 0.
At(array, i, j) == array.v[(i * array.shape[2]) + j + 1]

\* np.all(array[i] == array[j]) and np.all(array[:, i] == array[:, j])
RowsEqual(array, i, j) ==
    \A k \in 0..(array.shape[2] - 1) : At(array, i, k) = At(array, j, k)
ColumnsEqual(array, i, j) ==
    \A k \in 0..(array.shape[1] - 1) : At(array, k, i) = At(array, k, j)

\* The pairs (i, j) that the loops over range(length) and
\* range(i + 1, length) append to repeated.
RepeatedRows(array) ==
    {pair \in (0..(array.shape[1] - 1)) \X (0..(array.shape[1] - 1)) :
        pair[1] < pair[2] /\ RowsEqual(array, pair[1], pair[2])}
RepeatedColumns(array) ==
    {pair \in (0..(array.shape[2] - 1)) \X (0..(array.shape[2] - 1)) :
        pair[1] < pair[2] /\ ColumnsEqual(array, pair[1], pair[2])}

\* len(np.unique(data)) == len(data)
AllDistinct(data) ==
    Cardinality({data[i] : i \in 1..Len(data)}) = Len(data)

----------------------------------------------------------------------------
(* validate/validate_general_1d.py: the checks of a 1-D array.             *)

\* validate_ndarray with the mode ignored.
v1d_validate_ndarray_query(array, texcept) ==
    Ret(array.t = "ndarray" /\ Len(array.shape) = 1)

v1d_validate_ndarray(array, texcept) ==
    IF array.t # "ndarray"
        THEN IF texcept
                THEN Raise("TypeError", "validate_ndarray", "None")
             ELSE Ret(FALSE)
    ELSE LET flag == Len(array.shape) = 1
         IN  IF ~flag /\ texcept
                 THEN Raise("ValueError", "validate_ndarray", "None")
             ELSE Ret(flag)

\* validate_shape with the mode passed on to the check of the shape.
v1d_validate_shape_mode(array, shape, texcept) ==
    LET positive == vgeneral_validate_type_positive(shape, {"int"}, TRUE,
                                                    texcept)
        checked == v1d_validate_ndarray(array, texcept)
    IN  IF positive.exc # NoExc \/ ~positive.flag
            THEN positive
        ELSE IF checked.exc # NoExc \/ ~checked.flag
            THEN checked
        ELSE LET flag == array.shape[1] = shape.v
             IN  IF ~flag /\ texcept
                     THEN Raise("ValueError", "validate_shape", "None")
                 ELSE Ret(flag)

v1d_validate_shape(array, shape, texcept) ==
    LET positive == vgeneral_validate_type_positive(shape, {"int"}, TRUE,
                                                    TRUE)
        checked == v1d_validate_ndarray(array, texcept)
    IN  IF positive.exc # NoExc
            THEN positive
        ELSE IF checked.exc # NoExc \/ ~checked.flag
            THEN checked
        ELSE LET flag == array.shape[1] = shape.v
             IN  IF ~flag /\ texcept
                     THEN Raise("ValueError", "validate_shape", "None")
                 ELSE Ret(flag)

v1d_validate_type(array, dtype, texcept) ==
    LET checked == v1d_validate_ndarray(array, texcept)
    IN  IF checked.exc # NoExc \/ ~checked.flag
            THEN checked
        ELSE LET flag == dtype = {array.dtype}
             IN  IF ~flag /\ texcept
                     THEN Raise("TypeError", "validate_type", "None")
                 ELSE Ret(flag)

v1d_validate_type_negative(array, dtype, zero, texcept) ==
    LET checked == v1d_validate_type(array, dtype, texcept)
    IN  IF checked.exc # NoExc \/ ~checked.flag
            THEN checked
        ELSE LET flag == \A i \in 1..Len(array.v) :
                            IF zero THEN array.v[i] <= 0 ELSE array.v[i] < 0
             IN  IF ~flag /\ texcept
                     THEN Raise("ValueError", "validate_type_negative",
                                "None")
                 ELSE Ret(flag)

v1d_validate_type_positive(array, dtype, zero, texcept) ==
    LET checked == v1d_validate_type(array, dtype, texcept)
    IN  IF checked.exc # NoExc \/ ~checked.flag
            THEN checked
        ELSE LET flag == \A i \in 1..Len(array.v) :
                            IF zero THEN array.v[i] >= 0 ELSE array.v[i] > 0
             IN  IF ~flag /\ texcept
                     THEN Raise("ValueError", "validate_type_positive",
                                "None")
                 ELSE Ret(flag)

v1d_validate_unique(array, texcept) ==
    LET checked == v1d_validate_ndarray(array, texcept)
    IN  IF checked.exc # NoExc \/ ~checked.flag
            THEN checked
        ELSE LET flag == AllDistinct(array.v)
             IN  IF ~flag /\ texcept
                     THEN Raise("TypeError", "validate_unique", "None")
                 ELSE Ret(flag)

----------------------------------------------------------------------------
(* validate/validate_general_2d.py: the checks of a 2-D array.             *)

v2d__validate_shape(shape) ==
    IF shape.t # "tuple"
        THEN Exc("TypeError", "_validate_shape:tuple", "None")
    ELSE IF Len(shape.v) # 2
        THEN Exc("TypeError", "_validate_shape:length", "None")
    ELSE IF ~(\A i \in 1..2 :
                IsInstance(shape.v[i], {"int"}) /\ shape.v[i].v > 0)
        THEN Exc("TypeError", "_validate_shape:positive", "None")
    ELSE NoExc

v2d_validate_ndarray(array, texcept) ==
    IF array.t # "ndarray"
        THEN IF texcept
                THEN Raise("TypeError", "validate_ndarray", "None")
             ELSE Ret(FALSE)
    ELSE LET flag == Len(array.shape) = 2
         IN  IF ~flag /\ texcept
                 THEN Raise("ValueError", "validate_ndarray", "None")
             ELSE Ret(flag)

v2d_validate_shape(array, shape, texcept) ==
    LET checked == v2d_validate_ndarray(array, texcept)
    IN  IF v2d__validate_shape(shape) # NoExc
            THEN Raise(v2d__validate_shape(shape).kind,
                       v2d__validate_shape(shape).site, "None")
        ELSE IF checked.exc # NoExc \/ ~checked.flag
            THEN checked
        ELSE LET flag == array.shape = <<shape.v[1].v, shape.v[2].v>>
             IN  IF ~flag /\ texcept
                     THEN Raise("ValueError", "validate_shape", "None")
                 ELSE Ret(flag)

v2d_validate_type(array, dtype, texcept) ==
    LET checked == v2d_validate_ndarray(array, texcept)
    IN  IF checked.exc # NoExc \/ ~checked.flag
            THEN checked
        ELSE LET flag == dtype = {array.dtype}
             IN  IF ~flag /\ texcept
                     THEN Raise("TypeError", "validate_type", "None")
                 ELSE Ret(flag)

v2d_validate_type_negative(array, dtype, zero, texcept) ==
    LET checked == v2d_validate_type(array, dtype, texcept)
    IN  IF checked.exc # NoExc \/ ~checked.flag
            THEN checked
        ELSE LET flag == \A i \in 1..Len(array.v) :
                            IF zero THEN array.v[i] <= 0 ELSE array.v[i] < 0
             IN  IF ~flag /\ texcept
                     THEN Raise("ValueError", "validate_type_negative",
                                "None")
                 ELSE Ret(flag)

\* validate_type_positive with np.any in the place of np.all.
v2d_validate_type_positive_any(array, dtype, zero, texcept) ==
    LET checked == v2d_validate_type(array, dtype, texcept)
    IN  IF checked.exc # NoExc \/ ~checked.flag
            THEN checked
        ELSE LET flag == \E i \in 1..Len(array.v) :
                            IF zero THEN array.v[i] >= 0 ELSE array.v[i] > 0
             IN  IF ~flag /\ texcept
                     THEN Raise("ValueError", "validate_type_positive",
                                "None")
                 ELSE Ret(flag)

v2d_validate_type_positive(array, dtype, zero, texcept) ==
    LET checked == v2d_validate_type(array, dtype, texcept)
    IN  IF checked.exc # NoExc \/ ~checked.flag
            THEN checked
        ELSE LET flag == \A i \in 1..Len(array.v) :
                            IF zero THEN array.v[i] >= 0 ELSE array.v[i] > 0
             IN  IF ~flag /\ texcept
                     THEN Raise("ValueError", "validate_type_positive",
                                "None")
                 ELSE Ret(flag)

\* len(array[0]) is an IndexError on an array without rows.
v2d_validate_unique_columns(array, texcept) ==
    LET checked == v2d_validate_ndarray(array, texcept)
    IN  IF checked.exc # NoExc \/ ~checked.flag
            THEN checked
        ELSE IF array.shape[1] = 0
            THEN Raise("IndexError", "validate_unique_columns", "None")
        ELSE LET repeated == RepeatedColumns(array)
                 flag == repeated = {}
             IN  IF ~flag /\ texcept
                     THEN RaiseRepeated("ValueError",
                                        "validate_unique_columns", repeated)
                 ELSE Ret(flag)

v2d_validate_unique_entries(array, texcept) ==
    LET checked == v2d_validate_ndarray(array, texcept)
    IN  IF checked.exc # NoExc \/ ~checked.flag
            THEN checked
        ELSE LET flag == AllDistinct(array.v)
             IN  IF ~flag /\ texcept
                     THEN Raise("ValueError", "validate_unique_entries",
                                "None")
                 ELSE Ret(flag)

v2d_validate_unique_rows(array, texcept) ==
    LET checked == v2d_validate_ndarray(array, texcept)
    IN  IF checked.exc # NoExc \/ ~checked.flag
            THEN checked
        ELSE LET repeated == RepeatedRows(array)
                 flag == repeated = {}
             IN  IF ~flag /\ texcept
                     THEN RaiseRepeated("ValueError",
                                        "validate_unique_rows", repeated)
                 ELSE Ret(flag)

----------------------------------------------------------------------------
(* What the interpreter does on a subscript or a comparison.               *)

\* The outcome of evaluating d[key] for each key of keys, d being a section.
Subscript(d, keys) ==
    IF d.t # "dict"
        THEN Exc("TypeError", "subscript", "None")
    ELSE IF ~(keys \subseteq DOMAIN d.v)
        THEN Exc("KeyError", "subscript", "None")
    ELSE NoExc

\* The outcome of evaluating l[n - 1], the n-th entry of l.
IndexAt(l, n) ==
    IF l.t # "list"
        THEN Exc("TypeError", "index", "None")
    ELSE IF Len(l.v) < n
        THEN Exc("IndexError", "index", "None")
    ELSE NoExc

\* The outcome of ordering comparisons and arithmetic among the values of
\* vals: they are defined among numbers only.
Compare(vals) ==
    IF \A x \in vals : IsNumber(x)
        THEN NoExc
    ELSE Exc("TypeError", "compare", "None")

----------------------------------------------------------------------------
(* latexlattices/lattices/oned_sticks/parameters.py: the schema check.     *)

\* The turn of the loop with a key check that only refuses unknown keys.
_validate_general_entry_subset(key, value) ==
    IF value.t # "dict"
        THEN Exc("TypeError", "general:entry_type", key)
    ELSE IF ~(DOMAIN value.v \subseteq DOMAIN _TEMPLATE[key])
        THEN Exc("ValueError", "general:entry_keys", key)
    ELSE IF \E key0 \in DOMAIN value.v :
                ~IsInstance(value.v[key0], _TEMPLATE[key][key0])
        THEN Exc("TypeError", "general:leaf_type", key)
    ELSE NoExc

\* One turn of the loop over dictionary.items().
_validate_general_entry(key, value) ==
    IF value.t # "dict"
        THEN Exc("TypeError", "general:entry_type", key)
    ELSE IF DOMAIN value.v # DOMAIN _TEMPLATE[key]
        THEN Exc("ValueError", "general:entry_keys", key)
    ELSE IF \E key0 \in DOMAIN value.v :
                ~IsInstance(value.v[key0], _TEMPLATE[key][key0])
        THEN Exc("TypeError", "general:leaf_type", key)
    ELSE NoExc

\* The schema check with a loop over the template instead of the mapping.
_validate_general_template_order(dictionary) ==
    IF dictionary.t # "dict"
        THEN Exc("TypeError", "general:type", "None")
    ELSE IF DOMAIN _TEMPLATE # DOMAIN dictionary.v
        THEN Exc("ValueError", "general:keys", "None")
    ELSE FirstExc([i \in 1..5 |->
            _validate_general_entry(
                <<"box", "box_label", "lattice", "lattice_elements",
                  "lattice_parameters">>[i],
                dictionary.v[<<"box", "box_label", "lattice",
                    "lattice_elements", "lattice_parameters">>[i]])])

_validate_general(dictionary) ==
    IF dictionary.t # "dict"
        THEN Exc("TypeError", "general:type", "None")
    ELSE IF DOMAIN _TEMPLATE # DOMAIN dictionary.v
        THEN Exc("ValueError", "general:keys", "None")
    ELSE FirstExc([i \in 1..Len(dictionary.order) |->
            _validate_general_entry(dictionary.order[i],
                                    dictionary.v[dictionary.order[i]])])

----------------------------------------------------------------------------
(* latexlattices/lattices/oned_sticks/parameters.py: the section checks.   *)

RealTypes == {"int", "float"}

_validate_params_box(box) ==
    IF Subscript(box, {"position_top", "height", "width"}) # NoExc
        THEN Subscript(box, {"position_top", "height", "width"})
    ELSE FirstExc(<<
        validate_list(box.v.position_top, RealTypes, 2,
                      "box[position_top]", TRUE).exc,
        validate_real_positve(box.v.height, FALSE, "box[height]", TRUE).exc,
        validate_real_positve(box.v.width, FALSE, "box[width]", TRUE).exc>>)

\* The closing comparisons with >= in the place of >.
_box_label_fits_strictly(box, box_labels) ==
    IF Subscript(box, {"height"}) # NoExc
        THEN Subscript(box, {"height"})
    ELSE IF Compare({box_labels.v.height, box.v.height}) # NoExc
        THEN Compare({box_labels.v.height, box.v.height})
    ELSE IF box_labels.v.height.v >= box.v.height.v
        THEN Exc("ValueError", "box_label:height", "height")
    ELSE IF Subscript(box, {"width"}) # NoExc
        THEN Subscript(box, {"width"})
    ELSE IF Compare({box_labels.v.width, box.v.width}) # NoExc
        THEN Compare({box_labels.v.width, box.v.width})
    ELSE IF box_labels.v.width.v >= box.v.width.v
        THEN Exc("ValueError", "box_label:width", "width")
    ELSE NoExc

\* The two comparisons that close the box-label check.
_box_label_fits(box, box_labels) ==
    IF Subscript(box, {"height"}) # NoExc
        THEN Subscript(box, {"height"})
    ELSE IF Compare({box_labels.v.height, box.v.height}) # NoExc
        THEN Compare({box_labels.v.height, box.v.height})
    ELSE IF box_labels.v.height.v > box.v.height.v
        THEN Exc("ValueError", "box_label:height", "height")
    ELSE IF Subscript(box, {"width"}) # NoExc
        THEN Subscript(box, {"width"})
    ELSE IF Compare({box_labels.v.width, box.v.width}) # NoExc
        THEN Compare({box_labels.v.width, box.v.width})
    ELSE IF box_labels.v.width.v > box.v.width.v
        THEN Exc("ValueError", "box_label:width", "width")
    ELSE NoExc

_validate_params_box_label(box, box_labels) ==
    IF Subscript(box_labels, {"height", "width"}) # NoExc
        THEN Subscript(box_labels, {"height", "width"})
    ELSE FirstExc(<<
        validate_real_positve(box_labels.v.height, TRUE,
                              "box_labels[height]", TRUE).exc,
        validate_real_positve(box_labels.v.width, TRUE,
                              "box_labels[width]", TRUE).exc,
        _box_label_fits(box, box_labels)>>)

\* all(falias(value=x, zero=True, texcept=False) for x in lattice[key])
_lattice_all_positive(value) ==
    value.t = "list" /\ \A i \in 1..Len(value.v) :
        validate_real_positve(value.v[i], TRUE, "None", FALSE).flag

\* The loop with a TypeError for the offsets.
_lattice_positive_typed(lattice, order) ==
    FirstExc([i \in 1..Len(order) |->
        IF _lattice_all_positive(lattice.v[order[i]])
            THEN NoExc
        ELSE Exc(IF order[i] = "offsets" THEN "TypeError" ELSE "ValueError",
                 "lattice:positive", order[i])])

\* The loop over {"offsets", "position_end", "position_start"}, which
\* visits the keys in the order the set happens to iterate in.
_lattice_positive(lattice, order) ==
    FirstExc([i \in 1..Len(order) |->
        IF _lattice_all_positive(lattice.v[order[i]])
            THEN NoExc
        ELSE Exc("ValueError", "lattice:positive", order[i])])

\* The horizontal rule with <= between the two ends.
_lattice_x_nonstrict(box, pstr, pend) ==
    IF IndexAt(pstr, 1) # NoExc
        THEN IndexAt(pstr, 1)
    ELSE IF Compare({pstr.v[1]}) # NoExc
        THEN Compare({pstr.v[1]})
    ELSE IF ~(0 <= pstr.v[1].v)
        THEN Exc("ValueError", "lattice:x", "None")
    ELSE IF IndexAt(pend, 1) # NoExc
        THEN IndexAt(pend, 1)
    ELSE IF Compare({pend.v[1]}) # NoExc
        THEN Compare({pend.v[1]})
    ELSE IF ~(pstr.v[1].v <= pend.v[1].v)
        THEN Exc("ValueError", "lattice:x", "None")
    ELSE IF Subscript(box, {"width"}) # NoExc
        THEN Subscript(box, {"width"})
    ELSE IF Compare({box.v.width}) # NoExc
        THEN Compare({box.v.width})
    ELSE IF ~(pend.v[1].v <= box.v.width.v)
        THEN Exc("ValueError", "lattice:x", "None")
    ELSE NoExc

\* not (0 <= pstr[0] < pend[0] <= box["width"])
_lattice_x(box, pstr, pend) ==
    IF IndexAt(pstr, 1) # NoExc
        THEN IndexAt(pstr, 1)
    ELSE IF Compare({pstr.v[1]}) # NoExc
        THEN Compare({pstr.v[1]})
    ELSE IF ~(0 <= pstr.v[1].v)
        THEN Exc("ValueError", "lattice:x", "None")
    ELSE IF IndexAt(pend, 1) # NoExc
        THEN IndexAt(pend, 1)
    ELSE IF Compare({pend.v[1]}) # NoExc
        THEN Compare({pend.v[1]})
    ELSE IF ~(pstr.v[1].v < pend.v[1].v)
        THEN Exc("ValueError", "lattice:x", "None")
    ELSE IF Subscript(box, {"width"}) # NoExc
        THEN Subscript(box, {"width"})
    ELSE IF Compare({box.v.width}) # NoExc
        THEN Compare({box.v.width})
    ELSE IF ~(pend.v[1].v <= box.v.width.v)
        THEN Exc("ValueError", "lattice:x", "None")
    ELSE NoExc

\* The vertical rule without the equality of the two ends.
_lattice_y_unequal(box, pstr, pend) ==
    IF IndexAt(pstr, 2) # NoExc
        THEN IndexAt(pstr, 2)
    ELSE IF Compare({pstr.v[2]}) # NoExc
        THEN Compare({pstr.v[2]})
    ELSE IF ~(0 <= pstr.v[2].v)
        THEN Exc("ValueError", "lattice:y", "None")
    ELSE IF IndexAt(pend, 2) # NoExc
        THEN IndexAt(pend, 2)
    ELSE IF Subscript(box, {"height"}) # NoExc
        THEN Subscript(box, {"height"})
    ELSE IF Compare({pend.v[2], box.v.height}) # NoExc
        THEN Compare({pend.v[2], box.v.height})
    ELSE IF ~(pend.v[2].v <= box.v.height.v)
        THEN Exc("ValueError", "lattice:y", "None")
    ELSE NoExc

\* not (0 <= pstr[1] == pend[1] <= box["height"])
_lattice_y(box, pstr, pend) ==
    IF IndexAt(pstr, 2) # NoExc
        THEN IndexAt(pstr, 2)
    ELSE IF Compare({pstr.v[2]}) # NoExc
        THEN Compare({pstr.v[2]})
    ELSE IF ~(0 <= pstr.v[2].v)
        THEN Exc("ValueError", "lattice:y", "None")
    ELSE IF IndexAt(pend, 2) # NoExc
        THEN IndexAt(pend, 2)
    ELSE IF ~(IsNumber(pend.v[2]) /\ pstr.v[2].v = pend.v[2].v)
        THEN Exc("ValueError", "lattice:y", "None")
    ELSE IF Subscript(box, {"height"}) # NoExc
        THEN Subscript(box, {"height"})
    ELSE IF Compare({box.v.height}) # NoExc
        THEN Compare({box.v.height})
    ELSE IF ~(pend.v[2].v <= box.v.height.v)
        THEN Exc("ValueError", "lattice:y", "None")
    ELSE NoExc

\* The outcome of x + y and x - y: among integers the result is exact; with
\* a float operand the integer operand is converted to a float first.
Arithmetic(x, y) ==
    IF /\ "float" \in {x.t, y.t}
       /\ \E z \in {x, y} : z.t # "float" /\ ~ToFloat(z.v)
        THEN Exc("OverflowError", "lattice:offsets", "None")
    ELSE NoExc

\* The outcome of formatting with ".5f" the result of an operation on x and
\* y whose value is value: an integer result is converted to a float.
Format5f(x, y, value) ==
    IF "float" \notin {x.t, y.t} /\ ~ToFloat(value)
        THEN Exc("OverflowError", "lattice:offsets", "None")
    ELSE NoExc

\* (apos := pstr[0] + offset_l) >= (bpos := pend[0] - offset_r)
_lattice_offsets(offsets, pstr, pend) ==
    IF IndexAt(offsets, 2) # NoExc
        THEN IndexAt(offsets, 2)
    ELSE IF Compare({pstr.v[1], pend.v[1], offsets.v[1], offsets.v[2]})
                # NoExc
        THEN Compare({pstr.v[1], pend.v[1], offsets.v[1], offsets.v[2]})
    ELSE LET apos == Add(pstr.v[1], offsets.v[1])
             bpos == Sub(pend.v[1], offsets.v[2])
         IN  IF Arithmetic(pstr.v[1], offsets.v[1]) # NoExc
                 THEN Arithmetic(pstr.v[1], offsets.v[1])
             ELSE IF Arithmetic(pend.v[1], offsets.v[2]) # NoExc
                 THEN Arithmetic(pend.v[1], offsets.v[2])
             ELSE IF ~GreaterEqual(apos, bpos)
                 THEN NoExc
             ELSE IF Format5f(pstr.v[1], offsets.v[1], apos) # NoExc
                 THEN Format5f(pstr.v[1], offsets.v[1], apos)
             ELSE IF Format5f(pend.v[1], offsets.v[2], bpos) # NoExc
                 THEN Format5f(pend.v[1], offsets.v[2], bpos)
             ELSE Exc("ValueError", "lattice:offsets", "None")

LatticeKeys == {"offsets", "position_end", "position_start"}

_validate_params_lattice(box, lattice, order) ==
    IF Subscript(lattice, LatticeKeys \cup {"vertical_spacing"}) # NoExc
        THEN Subscript(lattice, LatticeKeys \cup {"vertical_spacing"})
    ELSE LET general == FirstExc(<<
                validate_list(lattice.v.offsets, RealTypes, 2,
                              "lattice[offsets]", TRUE).exc,
                validate_list(lattice.v.position_end, RealTypes, 2,
                              "lattice[position_end]", TRUE).exc,
                validate_list(lattice.v.position_start, RealTypes, 2,
                              "lattice[position_start]", TRUE).exc,
                validate_real_positve(lattice.v.vertical_spacing, FALSE,
                              "lattice[vertical_spacing]", TRUE).exc,
                _lattice_positive(lattice, order)>>)
             pstr == lattice.v.position_start
             pend == lattice.v.position_end
         IN  IF general # NoExc
                 THEN general
             ELSE IF _lattice_x(box, pstr, pend) # NoExc
                 THEN _lattice_x(box, pstr, pend)
             ELSE IF _lattice_y(box, pstr, pend) # NoExc
                 THEN _lattice_y(box, pstr, pend)
             ELSE _lattice_offsets(lattice.v.offsets, pstr, pend)

_validate_params_lattice_elements(elements) ==
    IF Subscript(elements, DOMAIN _TEMPLATE.lattice_elements) # NoExc
        THEN Subscript(elements, DOMAIN _TEMPLATE.lattice_elements)
    ELSE FirstExc(<<
        validate_real_positve(elements.v.arrow_height, FALSE,
                              "elements[arrow_height]", TRUE).exc,
        validate_real_positve(elements.v.circle_radius, FALSE,
                              "elements[circle_radius]", TRUE).exc,
        validate_real_positve(elements.v.tick_height, FALSE,
                              "elements[tick_height]", TRUE).exc,
        validate_bool(elements.v.vacancies_visible,
                              "elements[vacancies_visible]", TRUE).exc>>)

\* len(set(parameters[key])) != len(parameters[key])
_has_repeats(l) ==
    Cardinality({l[i].v : i \in 1..Len(l)}) # Len(l)

\* The turn of the loop with the threshold of the message as the bound.
_lattice_parameters_entry_threshold(parameters, key) ==
    LET l == parameters.v[key].v
        nticks == parameters.v.nticks.v
        threshold == parameters.v.nticks.v - (parameters.v.nmers.v - 1)
    IN  IF Len(l) = 0
            THEN NoExc
        ELSE IF ~(\A i \in 1..Len(l) : 0 <= l[i].v /\ l[i].v < threshold)
            THEN Exc("ValueError", "lattice_parameters:range", key)
        ELSE IF _has_repeats(l)
            THEN Exc("ValueError", "lattice_parameters:unique", key)
        ELSE NoExc

\* The turn of the loop with the two rules in the other order.
_lattice_parameters_entry_unique_first(parameters, key) ==
    LET l == parameters.v[key].v
        nticks == parameters.v.nticks.v
    IN  IF Len(l) = 0
            THEN NoExc
        ELSE IF _has_repeats(l)
            THEN Exc("ValueError", "lattice_parameters:unique", key)
        ELSE IF ~(\A i \in 1..Len(l) : 0 <= l[i].v /\ l[i].v < nticks)
            THEN Exc("ValueError", "lattice_parameters:range", key)
        ELSE NoExc

\* The turn of the loop without the test of the repeats.
_lattice_parameters_entry_range_only(parameters, key) ==
    LET l == parameters.v[key].v
        nticks == parameters.v.nticks.v
    IN  IF Len(l) = 0
            THEN NoExc
        ELSE IF ~(\A i \in 1..Len(l) : 0 <= l[i].v /\ l[i].v < nticks)
            THEN Exc("ValueError", "lattice_parameters:range", key)
        ELSE NoExc

\* One turn of the loop over {"adsorbing", "desorbing", "fixed"}.
_lattice_parameters_entry(parameters, key) ==
    LET l == parameters.v[key].v
        nticks == parameters.v.nticks.v
    IN  IF Len(l) = 0
            THEN NoExc
        ELSE IF ~(\A i \in 1..Len(l) : 0 <= l[i].v /\ l[i].v < nticks)
            THEN Exc("ValueError", "lattice_parameters:range", key)
        ELSE IF _has_repeats(l)
            THEN Exc("ValueError", "lattice_parameters:unique", key)
        ELSE NoExc

ParameterKeys == {"adsorbing", "desorbing", "fixed"}

\* The comparison of the two sizes with >= in the place of >.
_lattice_parameters_sizes_nonstrict(parameters) ==
    IF parameters.v.nmers.v >= parameters.v.nticks.v
        THEN Exc("ValueError", "lattice_parameters:nmers", "None")
    ELSE NoExc

\* parameters["nmers"] > parameters["nticks"]
_lattice_parameters_sizes(parameters) ==
    IF parameters.v.nmers.v > parameters.v.nticks.v
        THEN Exc("ValueError", "lattice_parameters:nmers", "None")
    ELSE NoExc

_validate_params_lattice_parameters(parameters, order) ==
    IF Subscript(parameters, DOMAIN _TEMPLATE.lattice_parameters) # NoExc
        THEN Subscript(parameters, DOMAIN _TEMPLATE.lattice_parameters)
    ELSE LET general == FirstExc(<<
                validate_int_positive(parameters.v.nmers, FALSE,
                              "lattice_parameters[nmers]", TRUE).exc,
                validate_int_positive(parameters.v.nticks, FALSE,
                              "lattice_parameters[nticks]", TRUE).exc,
                validate_list(parameters.v.adsorbing, {"int"}, -1,
                              "lattice_parameters[adsorbing]", TRUE).exc,
                validate_list(parameters.v.desorbing, {"int"}, -1,
                              "lattice_parameters[desorbing]", TRUE).exc,
                validate_list(parameters.v.fixed, {"int"}, -1,
                              "lattice_parameters[fixed]", TRUE).exc,
                validate_list(parameters.v.jumping, typing_Any, -1,
                              "lattice_parameters[jumping]", TRUE).exc>>)
         IN  IF general # NoExc
                 THEN general
             ELSE IF _lattice_parameters_sizes(parameters) # NoExc
                 THEN _lattice_parameters_sizes(parameters)
             ELSE FirstExc([i \in 1..Len(order) |->
                    _lattice_parameters_entry(parameters, order[i])])

----------------------------------------------------------------------------
(* The default configuration.  parameters.yaml is not part of the sources  *)
(* at hand; the mapping below is a configuration of the documented shape.  *)

TemplateOrder ==
    <<"box", "box_label", "lattice", "lattice_elements",
      "lattice_parameters">>

get ==
    ODict(TemplateOrder,
        [box |-> Dict(
            [position_top |-> List(<<PyInt(0), PyInt(0)>>),
             height |-> PyInt(2),
             width |-> PyInt(2)]),
         box_label |-> Dict(
            [height |-> PyInt(1),
             width |-> PyFloat(1)]),
         lattice |-> Dict(
            [offsets |-> List(<<PyInt(0), PyInt(0)>>),
             position_end |-> List(<<PyInt(2), PyInt(1)>>),
             position_start |-> List(<<PyInt(0), PyInt(1)>>),
             vertical_spacing |-> PyFloat(1)]),
         lattice_elements |-> Dict(
            [arrow_height |-> PyFloat(1),
             circle_radius |-> PyFloat(1),
             tick_height |-> PyInt(1),
             vacancies_visible |-> PyBool(TRUE)]),
         lattice_parameters |-> Dict(
            [nmers |-> PyInt(1),
             nticks |-> PyInt(2),
             adsorbing |-> List(<<PyInt(0)>>),
             desorbing |-> List(<<PyInt(1)>>),
             fixed |-> List(<<>>),
             jumping |-> List(<<>>)])])

----------------------------------------------------------------------------
(* The inputs validate() is applied to.                                    *)

\* testinvalid[key][subkey] = value
SetLeaf(config, key, subkey, value) ==
    [config EXCEPT !.v[key].v[subkey] = value]

Nums == -1..MaxNum

\* An integer beyond the range of the floats.
Huge == FloatMax + 1

\* Values offered for a scalar field.
Scalars ==
    {PyInt(n) : n \in Nums} \cup
    {PyFloat(0), PyFloat(1), PyBool(TRUE), PyBool(FALSE), Str, NoneVal,
     List(<<>>)}

\* Values offered for a field that holds a pair of numbers.
Pairs(S, T) == {List(<<PyInt(a), PyInt(b)>>) : a \in S, b \in T}

PairLike ==
    {List(<<>>), List(<<PyInt(0)>>), List(<<PyInt(0), PyFloat(1)>>),
     List(<<PyInt(-1), PyInt(0)>>), List(<<PyInt(0), Str>>),
     List(<<PyBool(TRUE), PyInt(0)>>),
     List(<<PyInt(0), PyInt(0), PyInt(0)>>), Str, NoneVal}

\* The (section, field) pairs of the template.
Leaves ==
    UNION {{<<key, key0>> : key0 \in DOMAIN _TEMPLATE[key]} :
            key \in DOMAIN _TEMPLATE}

NotAPair ==
    {List(<<>>), List(<<PyInt(0)>>), List(<<PyInt(0), Str>>),
     List(<<PyInt(0), PyInt(0), PyInt(0)>>), Str, NoneVal}

NotPositive ==
    {PyInt(0), PyInt(-1), PyFloat(0), PyBool(FALSE), Str, NoneVal,
     List(<<>>)}

NotIndices ==
    {Str, NoneVal, List(<<Str>>), List(<<PyFloat(0)>>), List(<<PyInt(-1)>>),
     List(<<PyInt(get.v.lattice_parameters.v.nticks.v)>>),
     List(<<PyInt(0), PyInt(0)>>)}

\* The values that break a rule of the field when they replace its value in
\* the default configuration (the "invalid" lists of the parameters test).
Invalid(key, key0) ==
    CASE key = "box" /\ key0 = "position_top" -> NotAPair
      [] key = "box_label" ->
            {PyInt(-1), Str, NoneVal, List(<<>>),
             PyInt(get.v.box.v[key0].v + 1)}
      [] key = "lattice" /\ key0 = "offsets" ->
            NotAPair \cup {List(<<PyInt(-1), PyInt(0)>>),
                           List(<<PyInt(1), PyInt(1)>>),
                           List(<<PyInt(2), PyInt(0)>>),
                           List(<<PyInt(Huge), PyInt(0)>>),
                           List(<<PyFloat(0), PyInt(Huge)>>)}
      [] key = "lattice" /\ key0 = "position_end" ->
            NotAPair \cup {List(<<PyInt(-1), PyInt(1)>>),
                           List(<<PyInt(0), PyInt(1)>>),
                           List(<<PyInt(3), PyInt(1)>>),
                           List(<<PyInt(2), PyInt(0)>>)}
      [] key = "lattice" /\ key0 = "position_start" ->
            NotAPair \cup {List(<<PyInt(-1), PyInt(1)>>),
                           List(<<PyInt(2), PyInt(1)>>),
                           List(<<PyInt(0), PyInt(0)>>),
                           List(<<PyInt(0), PyInt(3)>>)}
      [] key = "lattice_elements" /\ key0 = "vacancies_visible" ->
            {PyInt(0), PyInt(1), Str, NoneVal}
      [] key = "lattice_parameters" /\ key0 = "nmers" ->
            {PyInt(0), PyInt(-1), PyFloat(1), Str, NoneVal,
             PyInt(get.v.lattice_parameters.v.nticks.v + 1)}
      [] key = "lattice_parameters" /\ key0 = "nticks" ->
            {PyInt(0), PyInt(-1), PyFloat(2), Str, NoneVal, PyInt(1)}
      [] key = "lattice_parameters" /\ key0 = "jumping" ->
            {Str, NoneVal, PyInt(0)}
      [] key = "lattice_parameters" /\ key0 \in ParameterKeys -> NotIndices
      [] OTHER -> NotPositive

\* Mappings with a key less or a key more.
Without(f, key) == [x \in DOMAIN f \ {key} |-> f[x]]
WithExtra(f) == f @@ ("extra" :> NoneVal)

\* What a section of the default configuration can become: something that
\* is not a mapping, a mapping with another key set, a mapping with a leaf
\* of a type the template does not declare.
SectionVariants(key) ==
    {Str, List(<<>>)}
    \cup {Dict(Without(get.v[key].v, key0)) : key0 \in DOMAIN get.v[key].v}
    \cup {Dict([x \in DOMAIN get.v[key].v \ {key0} |-> NoneVal]) :
            key0 \in DOMAIN get.v[key].v}
    \cup {Dict(WithExtra(get.v[key].v))}
    \cup {[get.v[key] EXCEPT !.v[key0] = NoneVal] :
            key0 \in DOMAIN get.v[key].v}

\* Orders in which the sections can have been inserted in the mapping.
SchemaOrders ==
    {TemplateOrder,
     <<"lattice_parameters", "lattice_elements", "lattice", "box_label",
       "box">>,
     <<"lattice", "box", "lattice_parameters", "box_label",
       "lattice_elements">>}

\* The box section over all its fields.
BoxInputs ==
    \E p \in PairLike, h \in Scalars, w \in Scalars :
        configuration =
            SetLeaf(SetLeaf(SetLeaf(get, "box", "position_top", p),
                            "box", "height", h), "box", "width", w)

\* The box label against boxes of every size.
BoxLabelInputs ==
    \E bh \in 1..MaxNum, bw \in 1..MaxNum, h \in Scalars, w \in Scalars :
        configuration =
            SetLeaf(SetLeaf(SetLeaf(SetLeaf(get,
                "box", "height", PyInt(bh)), "box", "width", PyInt(bw)),
                "box_label", "height", h), "box_label", "width", w)

\* The lattice section with the given box size, baseline and offsets.
LatticeInput(bw, bh, ps, pe, of) ==
    SetLeaf(SetLeaf(SetLeaf(SetLeaf(SetLeaf(get,
        "box", "height", PyInt(bh)), "box", "width", PyInt(bw)),
        "lattice", "position_start", ps), "lattice", "position_end", pe),
        "lattice", "offsets", of)

\* The horizontal extent of the baseline and its offsets against boxes of
\* every width.
LatticeXInputs ==
    \E bw \in 1..MaxNum :
    \E ps \in Pairs(0..MaxNum, {1}), pe \in Pairs(0..MaxNum, {1}),
       of \in Pairs(0..MaxNum, 0..MaxNum) :
        configuration = LatticeInput(bw, 2, ps, pe, of)

\* The two ends of the baseline against boxes of every size.
LatticeXYInputs ==
    \E bh \in 1..MaxNum, bw \in 1..MaxNum :
    \E ps \in Pairs(0..MaxNum, 0..MaxNum),
       pe \in Pairs(0..MaxNum, 0..MaxNum) :
        configuration =
            LatticeInput(bw, bh, ps, pe, List(<<PyInt(0), PyInt(0)>>))

\* A box and a baseline that lie beyond the range of the floats, with
\* offsets that are integers or floats.
HugeInputs ==
    \E of \in {List(<<PyInt(0), PyInt(0)>>), List(<<PyInt(1), PyInt(0)>>),
               List(<<PyFloat(0), PyFloat(0)>>),
               List(<<PyInt(0), PyFloat(0)>>)} :
        configuration =
            LatticeInput(Huge + 2, 2, List(<<PyInt(Huge), PyInt(1)>>),
                         List(<<PyInt(Huge + 1), PyInt(1)>>), of)

\* A box and a baseline that reach to infinity, with offsets that are
\* finite or infinite.
InfiniteInputs ==
    \E of \in {List(<<PyInt(0), PyInt(0)>>),
               List(<<PyInt(0), PyFloat(Infinity)>>),
               List(<<PyInt(1), PyFloat(Infinity)>>),
               List(<<PyFloat(Infinity), PyInt(0)>>),
               List(<<PyFloat(Infinity), PyFloat(Infinity)>>)},
       pe \in {PyFloat(Infinity), PyInt(2)} :
        configuration =
            SetLeaf(SetLeaf(SetLeaf(get,
                "box", "width", PyFloat(Infinity)),
                "lattice", "position_end", List(<<pe, PyInt(1)>>)),
                "lattice", "offsets", of)

\* The default configuration with one leaf replaced by an invalid value.
SingleEdits ==
    \E l \in Leaves : \E value \in Invalid(l[1], l[2]) :
        configuration = SetLeaf(get, l[1], l[2], value)

\* The default configuration with two leaves replaced by invalid values.
DoubleEdits ==
    \E l \in Leaves, m \in Leaves :
    \E value \in Invalid(l[1], l[2]), value0 \in Invalid(m[1], m[2]) :
        configuration =
            SetLeaf(SetLeaf(get, l[1], l[2], value), m[1], m[2], value0)

\* The default configuration with up to two sections replaced, its sections
\* inserted in some order.
SectionInputs ==
    \E key \in DOMAIN _TEMPLATE, key0 \in DOMAIN _TEMPLATE :
    \E value \in SectionVariants(key) \cup {get.v[key]},
       value0 \in SectionVariants(key0) \cup {get.v[key0]},
       order \in SchemaOrders :
        configuration =
            ODict(order, [[get.v EXCEPT ![key] = value]
                                 EXCEPT ![key0] = value0])

\* Mappings whose top-level key set is not the template's, and objects that
\* are not mappings.
TopLevelInputs ==
    \/ configuration \in {Str, NoneVal, List(<<>>), PyInt(1)}
    \/ \E key \in DOMAIN _TEMPLATE, key0 \in DOMAIN _TEMPLATE :
       \E value \in SectionVariants(key) \cup {get.v[key]} :
       LET v == [get.v EXCEPT ![key] = value]
       IN  configuration \in
            {ODict(SelectSeq(TemplateOrder, LAMBDA x : x # key0),
                   Without(v, key0)),
             ODict(Append(TemplateOrder, "extra"), WithExtra(v)),
             ODict(<<"extra">> \o TemplateOrder, WithExtra(v))}

\* The boundary cases of the horizontal rule: a box of width 10 and a
\* baseline that starts at x = 5.
BoundaryInputs ==
    \E ex \in {5, 10} :
        configuration =
            SetLeaf(SetLeaf(SetLeaf(get,
                "box", "width", PyInt(10)),
                "lattice", "position_start", List(<<PyInt(5), PyInt(1)>>)),
                "lattice", "position_end", List(<<PyInt(ex), PyInt(1)>>))

\* The lattice parameters with the given sizes and lists of indices.
ParameterInput(nmers, nticks, lists) ==
    [get EXCEPT !.v.lattice_parameters.v =
        [key \in DOMAIN get.v.lattice_parameters.v |->
            IF key = "nmers" THEN nmers
            ELSE IF key = "nticks" THEN nticks
            ELSE IF key \in DOMAIN lists THEN lists[key]
            ELSE List(<<>>)]]

\* The two sizes over all values, the lists being empty or in range.
ParameterSizeInputs ==
    \E nmers \in Scalars, nticks \in Scalars :
    \E adsorbing \in {List(<<>>), List(<<PyInt(0)>>)} :
        configuration =
            ParameterInput(nmers, nticks, [adsorbing |-> adsorbing])

\* Lists of at most two integers.
IndexLists ==
    {List(<<>>)} \cup {List(<<PyInt(a)>>) : a \in Nums}
    \cup {List(<<PyInt(a), PyInt(b)>>) : a \in Nums, b \in Nums}

\* One of the three lists of indices over all lists, another one valid, out
\* of range or with a repeat, the third one empty, on lattices of every
\* number of ticks.
ParameterListInputs ==
    \E nticks \in 1..MaxNum, key \in ParameterKeys, key0 \in ParameterKeys :
    \E l \in IndexLists,
       l0 \in {List(<<PyInt(0)>>), List(<<PyInt(nticks)>>),
               List(<<PyInt(0), PyInt(0)>>)} :
        configuration =
            ParameterInput(PyInt(1), PyInt(nticks),
                           (key :> l) @@ (key0 :> l0))

\* The boundary cases of the range rule: 5 ticks, with monomers and with
\* 5-mers.
ParameterBoundaryInputs ==
    \E nmers \in {1, 5}, key \in ParameterKeys :
    \E l \in {List(<<PyInt(0), PyInt(4)>>), List(<<PyInt(5)>>),
              List(<<PyInt(1), PyInt(1)>>), List(<<PyInt(5), PyInt(5)>>)} :
        configuration = ParameterInput(PyInt(nmers), PyInt(5), key :> l)

\* Lists offered for the jumping field.
JumpingLists ==
    {List(<<>>), List(<<PyInt(0)>>), List(<<Str>>),
     List(<<NoneVal, PyFloat(1)>>), List(<<PyInt(0), PyInt(0)>>),
     List(<<List(<<>>)>>)}

\* The default configuration with a list in its jumping field.
JumpingInputs ==
    \E l \in JumpingLists :
        configuration = SetLeaf(get, "lattice_parameters", "jumping", l)

Inputs ==
    \/ BoxInputs
    \/ BoxLabelInputs
    \/ LatticeXInputs
    \/ LatticeXYInputs
    \/ HugeInputs
    \/ InfiniteInputs
    \/ BoundaryInputs
    \/ ParameterSizeInputs
    \/ ParameterListInputs
    \/ ParameterBoundaryInputs
    \/ JumpingInputs
    \/ SingleEdits
    \/ DoubleEdits
    \/ SectionInputs
    \/ TopLevelInputs

\* The orders a set of three keys can be iterated in.
Permutations3(S) ==
    {order \in S \X S \X S : {order[1], order[2], order[3]} = S}

----------------------------------------------------------------------------
(* The state machine: validate() runs the schema check and the five        *)
(* section checks one after the other on the configuration; a section      *)
(* check can also be called on its own.  executed lists the checks that    *)
(* ran, raised holds the exception that escaped.                           *)

Init ==
    /\ Inputs
    /\ call = NoCall
    /\ result = Pending
    /\ pc = "start"
    /\ raised = NoExc
    /\ executed = <<>>

\* A statement whose exception is kept but does not end the call.
Step_keep_going(here, name, exc, next) ==
    /\ pc = here
    /\ executed' = Append(executed, name)
    /\ raised' = IF exc # NoExc THEN exc ELSE raised
    /\ pc' = next
    /\ UNCHANGED <<configuration, call, result>>

\* A statement that hands the checked configuration back in the order of
\* the template, written over the caller's mapping.
Step_normalising(here, name, exc, next) ==
    /\ pc = here
    /\ executed' = Append(executed, name)
    /\ raised' = exc
    /\ pc' = IF exc # NoExc THEN "raised" ELSE next
    /\ configuration' =
            IF exc = NoExc /\ configuration.t = "dict"
                THEN ODict(TemplateOrder, configuration.v)
            ELSE configuration
    /\ UNCHANGED <<call, result>>

\* A statement of validate(): the check runs, and its exception, if any,
\* ends the call.
Step(here, name, exc, next) ==
    /\ pc = here
    /\ executed' = Append(executed, name)
    /\ raised' = exc
    /\ pc' = IF exc # NoExc THEN "raised" ELSE next
    /\ UNCHANGED <<configuration, call, result>>

validate_general ==
    Step("start", "_validate_general", _validate_general(configuration),
         "box")

validate_box ==
    Step("box", "_validate_params_box",
         _validate_params_box(configuration.v.box), "box_label")

validate_box_label ==
    Step("box_label", "_validate_params_box_label",
         _validate_params_box_label(configuration.v.box,
                                    configuration.v.box_label), "lattice")

validate_lattice ==
    \E order \in Permutations3(LatticeKeys) :
        Step("lattice", "_validate_params_lattice",
             _validate_params_lattice(configuration.v.box,
                                      configuration.v.lattice, order),
             "lattice_elements")

validate_lattice_elements ==
    Step("lattice_elements", "_validate_params_lattice_elements",
         _validate_params_lattice_elements(configuration.v.lattice_elements),
         "lattice_parameters")

validate_lattice_parameters ==
    \E order \in Permutations3(ParameterKeys) :
        Step("lattice_parameters", "_validate_params_lattice_parameters",
             _validate_params_lattice_parameters(
                configuration.v.lattice_parameters, order),
             "returned")

\* A section check called on its own on the sections of the configuration.
Call(name, exc) ==
    /\ Subscript(configuration, {"box", "box_label", "lattice"}) = NoExc
    /\ Step("start", name, exc, "returned")

call_validate_params_box ==
    Call("_validate_params_box", _validate_params_box(configuration.v.box))

call_validate_params_box_label ==
    Call("_validate_params_box_label",
         _validate_params_box_label(configuration.v.box,
                                    configuration.v.box_label))

call_validate_params_lattice ==
    \E order \in Permutations3(LatticeKeys) :
        Call("_validate_params_lattice",
             _validate_params_lattice(configuration.v.box,
                                      configuration.v.lattice, order))

\* The lattice-parameters check called on its own.
call_validate_params_lattice_parameters ==
    \E order \in Permutations3(ParameterKeys) :
        /\ Subscript(configuration, {"lattice_parameters"}) = NoExc
        /\ Step("start", "_validate_params_lattice_parameters",
                _validate_params_lattice_parameters(
                    configuration.v.lattice_parameters, order),
                "returned")

Next ==
    \/ call_validate_params_box
    \/ call_validate_params_box_label
    \/ call_validate_params_lattice
    \/ call_validate_params_lattice_parameters
    \/ validate_general
    \/ validate_box
    \/ validate_box_label
    \/ validate_lattice
    \/ validate_lattice_elements
    \/ validate_lattice_parameters

Spec == Init /\ [][Next]_vars

----------------------------------------------------------------------------
(* The validators called on their own: one call, on arguments drawn from   *)
(* the families below, in the strict mode or in the query mode.            *)

NumberTypes == {{"int"}, {"float"}, {"int", "float"}}

\* Values offered to the checks of a scalar.
ScalarValues ==
    {PyInt(n) : n \in Nums} \cup {PyFloat(n) : n \in -1..1}
    \cup {PyBool(TRUE), PyBool(FALSE), Str, NoneVal, List(<<>>)}

ScalarCalls ==
    \E fn \in {"vgeneral.validate_type", "vgeneral.validate_type_negative",
                "vgeneral.validate_type_positive", "validate_real_positve"},
       value \in ScalarValues, dtype \in NumberTypes,
       zero \in BOOLEAN, texcept \in BOOLEAN :
        call = Invoke(fn, value, dtype, zero, -1, NoneVal, texcept)

\* Values offered to validate_list, lengths it is asked for.
ListValues ==
    {List(<<>>), List(<<PyInt(0)>>), List(<<PyFloat(0)>>), List(<<Str>>),
     List(<<PyBool(TRUE)>>), List(<<PyInt(0), PyInt(1)>>),
     List(<<PyInt(0), PyFloat(1)>>), List(<<PyInt(0), Str>>),
     List(<<PyInt(0), PyInt(0), PyInt(0)>>), Tuple(<<PyInt(0), PyInt(1)>>),
     Str, NoneVal, PyInt(2)}

Lengths == -2..MaxNum

ListCalls ==
    \E value \in ListValues, dtype \in NumberTypes \cup {typing_Any},
       length \in Lengths, texcept \in BOOLEAN :
        call = Invoke("validate_list", value, dtype, FALSE, length, NoneVal,
                      texcept)

\* The values of the elements of an array.
Elems == -1..1

\* The shapes of the arrays: no axis, one, two and three axes.
Shapes ==
    {<<>>, <<1, 1, 1>>} \cup {<<n>> : n \in 0..MaxDim}
    \cup {<<rows, cols>> : rows \in 0..MaxDim, cols \in 0..MaxDim}

Size(shape) ==
    IF Len(shape) = 0 THEN 1
    ELSE IF Len(shape) = 1 THEN shape[1]
    ELSE IF Len(shape) = 2 THEN shape[1] * shape[2]
    ELSE shape[1] * shape[2] * shape[3]

\* The elements offered for an array of a shape: all the same, all 1 or
\* all -1 but one, all different, all the rows the same, all the columns
\* the same.
Fill(shape) ==
    LET n == Size(shape)
        cols == IF Len(shape) = 2 /\ shape[2] > 0 THEN shape[2] ELSE 1
    IN  {[p \in 1..n |-> k] : k \in Elems}
        \cup {[p \in 1..n |-> IF p = q THEN k ELSE base] :
                q \in 1..n, k \in Elems, base \in {-1, 1}}
        \cup {[p \in 1..n |-> p],
              [p \in 1..n |-> ((p - 1) % cols) + 1],
              [p \in 1..n |-> ((p - 1) \div cols) + 1]}

\* Objects that are not arrays.
NotArrays == {List(<<PyInt(1)>>), PyInt(1), NoneVal}

ArrayTypes == {{"int"}, {"float"}}

\* The call is on an array of the families above, or on another object.
OnArray(fn, dtype, zero, shape, texcept) ==
    \/ \E value \in NotArrays :
        call = Invoke(fn, value, dtype, zero, -1, shape, texcept)
    \/ \E s \in Shapes, t \in {"int", "float"} :
       \E data \in Fill(s) :
        call = Invoke(fn, NdArray(t, s, data), dtype, zero, -1, shape,
                      texcept)

\* The checks of the dimension and of the uniqueness.
ArrayCalls ==
    \E fn \in {"v1d.validate_ndarray", "v1d.validate_unique",
               "v2d.validate_ndarray", "v2d.validate_unique_columns",
               "v2d.validate_unique_entries", "v2d.validate_unique_rows"},
       texcept \in BOOLEAN :
        OnArray(fn, {}, FALSE, NoneVal, texcept)

\* The checks of the element type and of the sign.
ArrayTypeCalls ==
    \/ \E fn \in {"v1d.validate_type", "v2d.validate_type"},
          dtype \in ArrayTypes, texcept \in BOOLEAN :
        OnArray(fn, dtype, FALSE, NoneVal, texcept)
    \/ \E fn \in {"v1d.validate_type_negative", "v1d.validate_type_positive",
                  "v2d.validate_type_negative", "v2d.validate_type_positive"},
          dtype \in ArrayTypes, zero \in BOOLEAN, texcept \in BOOLEAN :
        OnArray(fn, dtype, zero, NoneVal, texcept)

\* Shapes asked of a 1-D array and of a 2-D array.
Shape1Args ==
    {PyInt(n) : n \in -1..MaxDim}
    \cup {PyFloat(1), PyBool(TRUE), Str, Tuple(<<PyInt(1), PyInt(1)>>)}

Shape2Args ==
    {Tuple(<<PyInt(rows), PyInt(cols)>>) :
        rows \in 0..MaxDim, cols \in 0..MaxDim}
    \cup {Tuple(<<PyInt(-1), PyInt(1)>>), Tuple(<<PyInt(1), PyInt(-1)>>),
          Tuple(<<PyInt(1)>>), Tuple(<<PyInt(1), PyInt(1), PyInt(1)>>),
          Tuple(<<PyFloat(1), PyInt(1)>>), Tuple(<<PyBool(TRUE), PyInt(1)>>),
          PyInt(3), List(<<PyInt(1), PyInt(1)>>)}

\* The checks of the shape.
ArrayShapeCalls ==
    \/ \E shape \in Shape1Args, texcept \in BOOLEAN :
        OnArray("v1d.validate_shape", {}, FALSE, shape, texcept)
    \/ \E shape \in Shape2Args, texcept \in BOOLEAN :
        OnArray("v2d.validate_shape", {}, FALSE, shape, texcept)

Calls ==
    \/ ScalarCalls
    \/ ListCalls
    \/ ArrayCalls
    \/ ArrayTypeCalls
    \/ ArrayShapeCalls

InitValidators ==
    /\ Calls
    /\ result = Pending
    /\ configuration = get
    /\ pc = "idle"
    /\ raised = NoExc
    /\ executed = <<>>

\* The call of the function fn ends with outcome.
Apply(fn, outcome) ==
    /\ call.fn = fn
    /\ result = Pending
    /\ result' = outcome
    /\ UNCHANGED <<configuration, pc, raised, executed, call>>

apply_vgeneral_validate_type ==
    Apply("vgeneral.validate_type",
          vgeneral_validate_type(call.value, call.dtype, call.texcept))

apply_vgeneral_validate_type_negative ==
    Apply("vgeneral.validate_type_negative",
          vgeneral_validate_type_negative(call.value, call.dtype, call.zero,
                                          call.texcept))

apply_vgeneral_validate_type_positive ==
    Apply("vgeneral.validate_type_positive",
          vgeneral_validate_type_positive(call.value, call.dtype, call.zero,
                                          call.texcept))

apply_validate_real_positve ==
    Apply("validate_real_positve",
          validate_real_positve(call.value, call.zero, "None", call.texcept))

apply_validate_list ==
    Apply("validate_list",
          validate_list(call.value, call.dtype, call.length, "None",
                        call.texcept))

apply_v1d_validate_ndarray ==
    Apply("v1d.validate_ndarray",
          v1d_validate_ndarray(
              call.value, call.texcept))

apply_v1d_validate_shape ==
    Apply("v1d.validate_shape",
          v1d_validate_shape(
              call.value, call.shape, call.texcept))

apply_v1d_validate_type ==
    Apply("v1d.validate_type",
          v1d_validate_type(
              call.value, call.dtype, call.texcept))

apply_v1d_validate_type_negative ==
    Apply("v1d.validate_type_negative",
          v1d_validate_type_negative(
              call.value, call.dtype, call.zero,
              call.texcept))

apply_v1d_validate_type_positive ==
    Apply("v1d.validate_type_positive",
          v1d_validate_type_positive(
              call.value, call.dtype, call.zero,
              call.texcept))

apply_v1d_validate_unique ==
    Apply("v1d.validate_unique",
          v1d_validate_unique(
              call.value, call.texcept))

apply_v2d_validate_ndarray ==
    Apply("v2d.validate_ndarray",
          v2d_validate_ndarray(
              call.value, call.texcept))

apply_v2d_validate_shape ==
    Apply("v2d.validate_shape",
          v2d_validate_shape(
              call.value, call.shape, call.texcept))

apply_v2d_validate_type ==
    Apply("v2d.validate_type",
          v2d_validate_type(
              call.value, call.dtype, call.texcept))

apply_v2d_validate_type_negative ==
    Apply("v2d.validate_type_negative",
          v2d_validate_type_negative(
              call.value, call.dtype, call.zero,
              call.texcept))

apply_v2d_validate_type_positive ==
    Apply("v2d.validate_type_positive",
          v2d_validate_type_positive(
              call.value, call.dtype, call.zero,
              call.texcept))

apply_v2d_validate_unique_columns ==
    Apply("v2d.validate_unique_columns",
          v2d_validate_unique_columns(
              call.value, call.texcept))

apply_v2d_validate_unique_entries ==
    Apply("v2d.validate_unique_entries",
          v2d_validate_unique_entries(
              call.value, call.texcept))

apply_v2d_validate_unique_rows ==
    Apply("v2d.validate_unique_rows",
          v2d_validate_unique_rows(
              call.value, call.texcept))

NextValidators ==
    \/ apply_vgeneral_validate_type
    \/ apply_vgeneral_validate_type_negative
    \/ apply_vgeneral_validate_type_positive
    \/ apply_validate_real_positve
    \/ apply_validate_list
    \/ apply_v1d_validate_ndarray
    \/ apply_v1d_validate_shape
    \/ apply_v1d_validate_type
    \/ apply_v1d_validate_type_negative
    \/ apply_v1d_validate_type_positive
    \/ apply_v1d_validate_unique
    \/ apply_v2d_validate_ndarray
    \/ apply_v2d_validate_shape
    \/ apply_v2d_validate_type
    \/ apply_v2d_validate_type_negative
    \/ apply_v2d_validate_type_positive
    \/ apply_v2d_validate_unique_columns
    \/ apply_v2d_validate_unique_entries
    \/ apply_v2d_validate_unique_rows

SpecValidators == InitValidators /\ [][NextValidators]_vars

----------------------------------------------------------------------------
(* src/lattices/oned_sticks/parameters.py, the module lattice.py imports   *)
(* as parameters: its template has no nmers, and its validate() runs the   *)
(* schema check and a box check that has no statement but the binding of a *)
(* local name.                                                             *)

parameters__TEMPLATE ==
    [box |->
        [position_top |-> {"list"},
         height |-> {"float", "int"},
         width |-> {"float", "int"}],
     box_label |->
        [height |-> {"float", "int"},
         width |-> {"float", "int"}],
     lattice |->
        [offsets |-> {"list"},
         position_end |-> {"list"},
         position_start |-> {"list"},
         vertical_spacing |-> {"float", "int"}],
     lattice_elements |->
        [arrow_height |-> {"float", "int"},
         circle_radius |-> {"float", "int"},
         tick_height |-> {"float", "int"},
         vacancies_visible |-> {"bool"}],
     lattice_parameters |->
        [nticks |-> {"int"},
         adsorbing |-> {"list"},
         desorbing |-> {"list"},
         fixed |-> {"list"},
         jumping |-> {"list"}]]

\* One turn of the loop over dictionary.items().
parameters__validate_general_entry(key, value) ==
    IF value.t # "dict"
        THEN Exc("TypeError", "general:entry_type", key)
    ELSE IF DOMAIN value.v # DOMAIN parameters__TEMPLATE[key]
        THEN Exc("ValueError", "general:entry_keys", key)
    ELSE IF \E key0 \in DOMAIN value.v :
                ~IsInstance(value.v[key0], parameters__TEMPLATE[key][key0])
        THEN Exc("TypeError", "general:leaf_type", key)
    ELSE NoExc

parameters__validate_general(dictionary) ==
    IF dictionary.t # "dict"
        THEN Exc("TypeError", "general:type", "None")
    ELSE IF DOMAIN parameters__TEMPLATE # DOMAIN dictionary.v
        THEN Exc("ValueError", "general:keys", "None")
    ELSE FirstExc([i \in 1..Len(dictionary.order) |->
            parameters__validate_general_entry(
                dictionary.order[i], dictionary.v[dictionary.order[i]])])

\* The box check binds the name box to a dictionary of types and returns.
parameters__validate_params_box(box) == NoExc

parameters_validate(configuration0) ==
    IF parameters__validate_general(configuration0) # NoExc
        THEN parameters__validate_general(configuration0)
    ELSE parameters__validate_params_box(configuration0.v.box)

----------------------------------------------------------------------------
(* src/lattices/oned_sticks/lattice.py: the caller's configuration merged  *)
(* onto the default one and validated.                                     *)

\* The default configuration read from parameters.yaml: the document of
\* the template above, the default configuration without nmers.
_get_configuration ==
    [get EXCEPT !.v.lattice_parameters =
        Dict(Without(get.v.lattice_parameters.v, "nmers"))]

\* What a call ends with: the exception or the mapping returned, and the
\* caller's mapping as the call leaves it.
Outcome(exc, vconfig, configuration0) ==
    [exc |-> exc,
     vconfig |-> IF exc = NoExc THEN vconfig ELSE NoneVal,
     configuration |-> configuration0]

\* The loop over configuration.keys() from its n-th turn on:
\* configuration[key].items() comes first, then vconfig[key] for every item.
RECURSIVE _merge(_, _, _)
_merge(vconfig, configuration0, n) ==
    IF n > Len(configuration0.order)
        THEN [exc |-> NoExc, vconfig |-> vconfig]
    ELSE LET key == configuration0.order[n]
             section == configuration0.v[key]
         IN  IF section.t # "dict"
                 THEN [exc |-> Exc("AttributeError", "merge:items", key),
                       vconfig |-> vconfig]
             ELSE IF DOMAIN section.v = {}
                 THEN _merge(vconfig, configuration0, n + 1)
             ELSE IF key \notin DOMAIN vconfig.v
                 THEN [exc |-> Exc("KeyError", "merge:section", key),
                       vconfig |-> vconfig]
             ELSE _merge([vconfig EXCEPT !.v[key].v = section.v @@ @],
                         configuration0, n + 1)

\* The loop with the default kept for a field the default has.
RECURSIVE _merge_defaults(_, _, _)
_merge_defaults(vconfig, configuration0, n) ==
    IF n > Len(configuration0.order)
        THEN [exc |-> NoExc, vconfig |-> vconfig]
    ELSE LET key == configuration0.order[n]
             section == configuration0.v[key]
         IN  IF section.t # "dict"
                 THEN [exc |-> Exc("AttributeError", "merge:items", key),
                       vconfig |-> vconfig]
             ELSE IF DOMAIN section.v = {}
                 THEN _merge_defaults(vconfig, configuration0, n + 1)
             ELSE IF key \notin DOMAIN vconfig.v
                 THEN [exc |-> Exc("KeyError", "merge:section", key),
                       vconfig |-> vconfig]
             ELSE _merge_defaults([vconfig EXCEPT !.v[key].v = @ @@ section.v],
                                  configuration0, n + 1)

\* _validate_configuration with the defaults winning over the caller.
_validate_configuration_defaults(configuration0) ==
    IF configuration0.t # "dict"
        THEN Outcome(Exc("AttributeError", "merge:keys", "None"), NoneVal,
                     configuration0)
    ELSE LET merged == _merge_defaults(_get_configuration, configuration0, 1)
         IN  IF merged.exc # NoExc
                 THEN Outcome(merged.exc, NoneVal, configuration0)
             ELSE Outcome(parameters_validate(merged.vconfig),
                          merged.vconfig, configuration0)

_validate_configuration(configuration0) ==
    IF configuration0.t # "dict"
        THEN Outcome(Exc("AttributeError", "merge:keys", "None"), NoneVal,
                     configuration0)
    ELSE LET merged == _merge(_get_configuration, configuration0, 1)
         IN  IF merged.exc # NoExc
                 THEN Outcome(merged.exc, NoneVal, configuration0)
             ELSE Outcome(parameters_validate(merged.vconfig),
                          merged.vconfig, configuration0)

----------------------------------------------------------------------------
(* The mappings _validate_configuration is called on.                      *)

\* Values a caller sets a field to.
Overrides ==
    {PyInt(1), PyInt(MaxNum), PyFloat(1), PyBool(FALSE), Str, NoneVal,
     List(<<>>), List(<<PyInt(1), PyInt(1)>>)}

\* The fields of the default configuration, as pairs of section and field.
Fields ==
    {<<key, key0>> : key \in DOMAIN _get_configuration.v,
                     key0 \in {"position_top", "height", "width", "offsets",
                               "position_end", "position_start",
                               "vertical_spacing", "arrow_height",
                               "circle_radius", "tick_height",
                               "vacancies_visible", "nticks", "adsorbing",
                               "desorbing", "fixed", "jumping"}}
        \cap {pair \in STRING \X STRING :
                pair[2] \in DOMAIN _get_configuration.v[pair[1]].v}

\* {key: {key0: value}}
OneField(key, key0, value) == ODict(<<key>>, key :> Dict(key0 :> value))

\* Values a caller can give for a section instead of a mapping.
NotSections == {Str, NoneVal, List(<<>>)}

\* Mappings of the caller: no section, one field, two fields of one
\* section or of two, a section without fields, a field or a section the
\* default does not have, a section that is not a mapping, and the default
\* configuration itself; two sections come in both orders.
CallerMappings ==
    \/ \E value \in {ODict(<<>>, <<>>), _get_configuration, NoneVal,
                     List(<<>>), Str} :
        call = Invoke("_validate_configuration", value, {}, FALSE, -1,
                      NoneVal, FALSE)
    \/ \E field \in Fields, value \in Overrides :
        call = Invoke("_validate_configuration",
                      OneField(field[1], field[2], value), {}, FALSE, -1,
                      NoneVal, FALSE)
    \/ \E h \in Overrides, w \in Overrides :
        call = Invoke("_validate_configuration",
                      ODict(<<"box">>,
                            "box" :> Dict([height |-> h, width |-> w])),
                      {}, FALSE, -1, NoneVal, FALSE)
    \/ \E key \in {"box", "lattice", "unknown"},
          key0 \in {"height", "nmers", "extra"},
          section \in {Dict(<<>>), Dict([nticks |-> PyInt(MaxNum)]),
                       Dict([extra |-> PyInt(1)])} \cup NotSections,
          value \in {PyInt(MaxNum), Str},
          first \in BOOLEAN :
        call = Invoke("_validate_configuration",
                      ODict(IF first THEN <<key, "lattice_parameters">>
                            ELSE <<"lattice_parameters", key>>,
                            (key :> Dict(key0 :> value))
                            @@ ("lattice_parameters" :> section)),
                      {}, FALSE, -1, NoneVal, FALSE)
    \/ \E key \in DOMAIN _get_configuration.v \cup {"unknown"},
          section \in {Dict(<<>>), Dict([extra |-> PyInt(1)])}
                      \cup NotSections :
        call = Invoke("_validate_configuration",
                      ODict(<<key>>, key :> section), {}, FALSE, -1,
                      NoneVal, FALSE)

InitMerge ==
    /\ CallerMappings
    /\ configuration = NoneVal
    /\ result = Pending
    /\ pc = "start"
    /\ raised = NoExc
    /\ executed = <<>>

\* The call of _validate_configuration: configuration holds the mapping it
\* returns, raised the exception it ends with otherwise.
validate_configuration ==
    /\ pc = "start"
    /\ call.fn = "_validate_configuration"
    /\ LET out == _validate_configuration(call.value)
       IN  /\ configuration' = out.vconfig
           /\ raised' = out.exc
           /\ pc' = IF out.exc = NoExc THEN "returned" ELSE "raised"
           /\ call' = [call EXCEPT !.value = out.configuration]
    /\ executed' = Append(executed, "_validate_configuration")
    /\ UNCHANGED result

NextMerge == validate_configuration

SpecMerge == InitMerge /\ [][NextMerge]_vars

----------------------------------------------------------------------------
(* Vocabulary of the properties.                                           *)

\* The statements of validate(), in the order it is specified to run them.
ValidateOrder ==
    <<"_validate_general", "_validate_params_box",
      "_validate_params_box_label", "_validate_params_lattice",
      "_validate_params_lattice_elements",
      "_validate_params_lattice_parameters">>

\* The state belongs to a call of validate().
InValidate == executed # <<>> /\ executed[1] = "_validate_general"

\* The call has ended.
Ended == pc \in {"raised", "returned"}

\* The state is the end of a call of the section check name on its own.
Called(name) == Ended /\ executed = <<name>>

\* The exceptions the n-th statement of validate() can end with on the
\* configuration C (NoExc when it returns).
CheckOutcomes(n, C) ==
    CASE n = 1 -> {_validate_general(C)}
      [] n = 2 -> {_validate_params_box(C.v.box)}
      [] n = 3 -> {_validate_params_box_label(C.v.box, C.v.box_label)}
      [] n = 4 -> {_validate_params_lattice(C.v.box, C.v.lattice, order) :
                        order \in Permutations3(LatticeKeys)}
      [] n = 5 -> {_validate_params_lattice_elements(C.v.lattice_elements)}
      [] n = 6 -> {_validate_params_lattice_parameters(
                        C.v.lattice_parameters, order) :
                        order \in Permutations3(ParameterKeys)}

\* The n-th statement finds a violated rule in C.
Violated(n, C) == CheckOutcomes(n, C) # {NoExc}

\* The position of the earliest statement that finds a violated rule, one
\* past the last statement when no rule is violated.
Earliest(C) ==
    IF Violated(1, C)
        THEN 1
    ELSE IF \E n \in 2..6 : Violated(n, C)
        THEN CHOOSE n \in 2..6 :
                /\ Violated(n, C)
                /\ \A m \in 2..(n - 1) : ~Violated(m, C)
    ELSE 7

----------------------------------------------------------------------------
(* C1: validate() runs the schema check and then the box, box_label,       *)
(* lattice, lattice_elements and lattice_parameters checks in that order   *)
(* and stops at the first failure: the checks executed are a prefix of     *)
(* that order that never goes past the earliest check with a violated      *)
(* rule, the exception that escapes is the one of that earliest check, and *)
(* validate() returns only when no check has a violated rule.              *)
C1_FailFastInOrder ==
    InValidate =>
        /\ \A i \in 1..Len(executed) : executed[i] = ValidateOrder[i]
        /\ Len(executed) <= Earliest(configuration)
        /\ pc # "raised" => raised = NoExc
        /\ pc = "raised" =>
            /\ Len(executed) = Earliest(configuration)
            /\ raised # NoExc
            /\ raised \in CheckOutcomes(Earliest(configuration),
                                        configuration)
        /\ pc = "returned" => Earliest(configuration) = 7

\* A configuration with violations in the box and in the lattice elements:
\* the box check raised and nothing ran after it.
C1_Witness ==
    /\ InValidate
    /\ pc = "raised"
    /\ executed = SubSeq(ValidateOrder, 1, 2)
    /\ Violated(5, configuration)

----------------------------------------------------------------------------
(* C2: the schema check succeeds exactly on the mappings whose top-level   *)
(* key set is the template's, whose values are all mappings with the       *)
(* template's second-level key set, and whose leaves are all instances of  *)
(* the types the template declares; value ranges and relations between     *)
(* fields play no part.                                                    *)
SchemaShape(C) ==
    /\ C.t = "dict"
    /\ DOMAIN C.v = DOMAIN _TEMPLATE
    /\ \A key \in DOMAIN C.v :
        /\ C.v[key].t = "dict"
        /\ DOMAIN C.v[key].v = DOMAIN _TEMPLATE[key]
        /\ \A key0 \in DOMAIN C.v[key].v :
            IsInstance(C.v[key].v[key0], _TEMPLATE[key][key0])

C2_SchemaIffShape ==
    executed = <<"_validate_general">> =>
        (raised = NoExc <=> SchemaShape(configuration))

\* The schema check passed a configuration whose box has a negative height
\* and whose label is larger than the box.
C2_Witness ==
    /\ executed = <<"_validate_general">>
    /\ raised = NoExc
    /\ configuration.v.box.v.height = PyInt(-1)
    /\ configuration.v.box_label.v.height.v > configuration.v.box.v.height.v

----------------------------------------------------------------------------
(* C3, as stated: on a mapping with the template's top-level keys, the     *)
(* schema check fails with a TypeError as soon as some section is not a    *)
(* mapping, whatever the other sections are, and with a ValueError when    *)
(* all sections are mappings and some section has a wrong key set.         *)
TopLevelShape(C) == C.t = "dict" /\ DOMAIN C.v = DOMAIN _TEMPLATE

NotMapping(C, key) == C.v[key].t # "dict"

WrongKeys(C, key) ==
    ~NotMapping(C, key) /\ DOMAIN C.v[key].v # DOMAIN _TEMPLATE[key]

WrongLeaf(C, key) ==
    /\ ~NotMapping(C, key)
    /\ ~WrongKeys(C, key)
    /\ \E key0 \in DOMAIN C.v[key].v :
            ~IsInstance(C.v[key].v[key0], _TEMPLATE[key][key0])

C3_RulesOverWholeConfiguration ==
    (executed = <<"_validate_general">> /\ TopLevelShape(configuration)) =>
        /\ (\E key \in DOMAIN _TEMPLATE : NotMapping(configuration, key))
            => raised.kind = "TypeError"
        /\ ( /\ \A key \in DOMAIN _TEMPLATE : ~NotMapping(configuration, key)
             /\ \E key \in DOMAIN _TEMPLATE : WrongKeys(configuration, key))
            => raised.kind = "ValueError"

(* C3, amended: the schema check applies the three rules section by        *)
(* section, in the order the mapping iterates its sections; the failure is *)
(* the one of the first section in that order that breaks a rule, and      *)
(* within that section a value that is not a mapping is a TypeError, else  *)
(* a wrong key set is a ValueError (even with a wrongly typed leaf), else  *)
(* a wrongly typed leaf is a TypeError.                                    *)
BadSection(C, key) ==
    NotMapping(C, key) \/ WrongKeys(C, key) \/ WrongLeaf(C, key)

FirstBadSection(C) ==
    C.order[CHOOSE i \in 1..Len(C.order) :
                /\ BadSection(C, C.order[i])
                /\ \A j \in 1..(i - 1) : ~BadSection(C, C.order[j])]

C3_RulesSectionBySection ==
    (executed = <<"_validate_general">> /\ TopLevelShape(configuration)) =>
        IF \A key \in DOMAIN _TEMPLATE : ~BadSection(configuration, key)
            THEN raised = NoExc
        ELSE LET key == FirstBadSection(configuration)
             IN  /\ raised.name = key
                 /\ NotMapping(configuration, key) =>
                        raised.kind = "TypeError"
                        /\ raised.site = "general:entry_type"
                 /\ WrongKeys(configuration, key) =>
                        raised.kind = "ValueError"
                        /\ raised.site = "general:entry_keys"
                 /\ WrongLeaf(configuration, key) =>
                        raised.kind = "TypeError"
                        /\ raised.site = "general:leaf_type"

\* A section with a wrong key set and wrongly typed leaves comes before a
\* section that is not a mapping: the failure is the ValueError of the key
\* set.
C3_Witness ==
    /\ executed = <<"_validate_general">>
    /\ TopLevelShape(configuration)
    /\ \E key \in DOMAIN _TEMPLATE : NotMapping(configuration, key)
    /\ WrongKeys(configuration, FirstBadSection(configuration))
    /\ \E key0 \in DOMAIN configuration.v[FirstBadSection(configuration)].v :
            configuration.v[FirstBadSection(configuration)].v[key0] = NoneVal
    /\ raised.kind = "ValueError"

----------------------------------------------------------------------------
----------------------------------------------------------------------------
(* C5: on the default configuration with exactly one leaf replaced by an   *)
(* invalid value, validate() never returns: it ends with an exception, and *)
(* the exception is a TypeError or a ValueError.                           *)
C5_SingleInvalidLeafRaises ==
    (InValidate /\ SingleEdits) =>
        /\ pc # "returned"
        /\ raised.kind \in {"None", "TypeError", "ValueError"}
        /\ Ended => raised.kind \in {"TypeError", "ValueError"}

\* Refuted by offsets of [Huge, 0]: the lattice check builds the message
\* of its ValueError with ".5f" and the OverflowError of the conversion is
\* what escapes validate().

----------------------------------------------------------------------------
(* C6: the box check succeeds exactly when position_top is a list of two   *)
(* numbers and height and width are numbers greater than 0; 0 is refused.  *)
HasFields(section, keys) == section.t = "dict" /\ keys \subseteq DOMAIN section.v

IsPair(value) ==
    /\ value.t = "list"
    /\ Len(value.v) = 2
    /\ \A i \in 1..2 : IsNumber(value.v[i])

BoxRule(box) ==
    /\ IsPair(box.v.position_top)
    /\ IsNumber(box.v.height) /\ box.v.height.v > 0
    /\ IsNumber(box.v.width) /\ box.v.width.v > 0

C6_BoxIff ==
    ( /\ Called("_validate_params_box")
      /\ HasFields(configuration.v.box, {"position_top", "height", "width"}))
    => (raised = NoExc <=> BoxRule(configuration.v.box))

\* A box that is valid but for a height of 0 was refused.
C6_Witness ==
    /\ Called("_validate_params_box")
    /\ HasFields(configuration.v.box, {"position_top", "height", "width"})
    /\ IsPair(configuration.v.box.v.position_top)
    /\ configuration.v.box.v.height = PyInt(0)
    /\ IsNumber(configuration.v.box.v.width)
    /\ configuration.v.box.v.width.v > 0
    /\ raised # NoExc

----------------------------------------------------------------------------
(* C7: against a valid box, the box-label check succeeds exactly when      *)
(* height and width are numbers, not negative (0 included) and not larger  *)
(* than the box; a label that passes the sign rule and is higher than the  *)
(* box gets the ValueError that names the height, one that is only wider   *)
(* the ValueError that names the width; and validate() on the default      *)
(* configuration with box_label.height above box.height ends with the      *)
(* ValueError that names the height.                                       *)
LabelSigns(label) ==
    /\ IsNumber(label.v.height) /\ label.v.height.v >= 0
    /\ IsNumber(label.v.width) /\ label.v.width.v >= 0

C7_BoxLabel ==
    /\ ( /\ Called("_validate_params_box_label")
         /\ HasFields(configuration.v.box, {"position_top", "height", "width"})
         /\ BoxRule(configuration.v.box)
         /\ HasFields(configuration.v.box_label, {"height", "width"}))
       => LET box == configuration.v.box.v
              label == configuration.v.box_label.v
          IN  /\ raised = NoExc <=>
                    /\ LabelSigns(configuration.v.box_label)
                    /\ label.height.v <= box.height.v
                    /\ label.width.v <= box.width.v
              /\ LabelSigns(configuration.v.box_label) =>
                    /\ label.height.v > box.height.v =>
                        raised = Exc("ValueError", "box_label:height",
                                     "height")
                    /\ ( /\ label.height.v <= box.height.v
                         /\ label.width.v > box.width.v) =>
                        raised = Exc("ValueError", "box_label:width",
                                     "width")
    /\ ( /\ InValidate
         /\ Ended
         /\ \E h \in Scalars :
                /\ IsNumber(h)
                /\ h.v > get.v.box.v.height.v
                /\ configuration = SetLeaf(get, "box_label", "height", h))
       => raised = Exc("ValueError", "box_label:height", "height")

\* A label of height 0 was accepted.
C7_Witness ==
    /\ Called("_validate_params_box_label")
    /\ HasFields(configuration.v.box, {"position_top", "height", "width"})
    /\ BoxRule(configuration.v.box)
    /\ HasFields(configuration.v.box_label, {"height", "width"})
    /\ configuration.v.box_label.v.height = PyInt(0)
    /\ raised = NoExc

----------------------------------------------------------------------------
(* Vocabulary of the lattice properties: the state ends a call of the      *)
(* lattice check on a valid box and on a lattice section whose fields pass *)
(* the type and length validations.                                        *)
LatticeCalled ==
    /\ Called("_validate_params_lattice")
    /\ HasFields(configuration.v.box, {"position_top", "height", "width"})
    /\ BoxRule(configuration.v.box)
    /\ HasFields(configuration.v.lattice,
                 LatticeKeys \cup {"vertical_spacing"})
    /\ \A key \in LatticeKeys : IsPair(configuration.v.lattice.v[key])
    /\ IsNumber(configuration.v.lattice.v.vertical_spacing)
    /\ configuration.v.lattice.v.vertical_spacing.v > 0

\* No entry of the three pairs is negative.
LatticeNotNegative ==
    \A key \in LatticeKeys : \A i \in 1..2 :
        configuration.v.lattice.v[key].v[i].v >= 0

start_x == configuration.v.lattice.v.position_start.v[1].v
start_y == configuration.v.lattice.v.position_start.v[2].v
end_x == configuration.v.lattice.v.position_end.v[1].v
end_y == configuration.v.lattice.v.position_end.v[2].v
left == start_x + configuration.v.lattice.v.offsets.v[1].v
right == end_x - configuration.v.lattice.v.offsets.v[2].v
box_width == configuration.v.box.v.width.v
box_height == configuration.v.box.v.height.v

XRule == 0 <= start_x /\ start_x < end_x /\ end_x <= box_width
YRule == 0 <= start_y /\ start_y = end_y /\ end_y <= box_height

\* The check went past the rule of the x coordinates, of the y coordinates.
PastX == raised.site \in {"None", "lattice:y", "lattice:offsets"}
PastY == raised.site \in {"None", "lattice:offsets"}

----------------------------------------------------------------------------
(* C8: the lattice check gets past the rule of the x coordinates only if   *)
(* 0 <= position_start.x < position_end.x <= box.width, and it does        *)
(* whenever that holds and no entry is negative; otherwise it raises the   *)
(* ValueError of that rule (or, for a negative entry, the one of the sign  *)
(* rule).  Equal x are refused, position_end.x = box.width is accepted:    *)
(* with a width of 10 and a start at 5, an end at 5 raises and an end at   *)
(* 10 succeeds.                                                            *)
C8_LatticeX ==
    LatticeCalled =>
        /\ PastX => XRule
        /\ (LatticeNotNegative /\ XRule) => PastX
        /\ (LatticeNotNegative /\ ~XRule) =>
                raised = Exc("ValueError", "lattice:x", "None")
        /\ (box_width = 10 /\ start_x = 5 /\ end_x = 5) =>
                raised = Exc("ValueError", "lattice:x", "None")
        /\ (box_width = 10 /\ start_x = 5 /\ end_x = 10 /\ YRule
            /\ left < right) => raised = NoExc

\* With a width of 10, a baseline from 5 to 5 was refused by the rule.
C8_Witness ==
    /\ LatticeCalled
    /\ box_width = 10 /\ start_x = 5 /\ end_x = 5
    /\ raised = Exc("ValueError", "lattice:x", "None")

----------------------------------------------------------------------------
(* C9: once past the rule of the x coordinates, the lattice check gets     *)
(* past the rule of the y coordinates exactly when 0 <= position_start.y,  *)
(* position_start.y = position_end.y and position_end.y <= box.height, and *)
(* raises the ValueError of that rule otherwise.                           *)
C9_LatticeY ==
    LatticeCalled =>
        /\ PastY => YRule
        /\ (LatticeNotNegative /\ XRule) =>
            /\ YRule <=> PastY
            /\ ~YRule => raised = Exc("ValueError", "lattice:y", "None")

\* A baseline inside the box whose two ends differ in height was refused.
C9_Witness ==
    /\ LatticeCalled
    /\ LatticeNotNegative
    /\ XRule
    /\ start_y # end_y
    /\ end_y <= box_height
    /\ raised = Exc("ValueError", "lattice:y", "None")

----------------------------------------------------------------------------
(* C10: when the earlier rules of the lattice check hold, the check raises *)
(* exactly when left >= right, with left = position_start.x + offsets[0]   *)
(* and right = position_end.x - offsets[1], and the failure is the         *)
(* ValueError of the offsets; left = right is refused.                     *)
C10_LatticeOffsets ==
    (LatticeCalled /\ LatticeNotNegative /\ XRule /\ YRule) =>
        /\ raised # NoExc <=> left >= right
        /\ left >= right =>
                raised = Exc("ValueError", "lattice:offsets", "None")

\* Refuted beyond the range of the floats: with left >= right the failure
\* is the OverflowError of the message, and with left < right and a float
\* offset it is the OverflowError of the sum.

----------------------------------------------------------------------------
(* Vocabulary of the lattice-parameters properties: the state ends a call  *)
(* of the lattice-parameters check on a section that has its six fields.   *)
ParametersCalled ==
    /\ Called("_validate_params_lattice_parameters")
    /\ HasFields(configuration.v.lattice_parameters,
                 DOMAIN _TEMPLATE.lattice_parameters)

nmers == configuration.v.lattice_parameters.v.nmers
nticks == configuration.v.lattice_parameters.v.nticks
indices(key) == configuration.v.lattice_parameters.v[key]

\* The two sizes are integers greater than 0.
SizesRule ==
    /\ IsInstance(nmers, {"int"}) /\ nmers.v > 0
    /\ IsInstance(nticks, {"int"}) /\ nticks.v > 0

\* The three lists of indices are lists of integers and jumping is an empty
\* list.
ListsTyped ==
    /\ \A key \in ParameterKeys :
        /\ indices(key).t = "list"
        /\ \A i \in 1..Len(indices(key).v) :
                IsInstance(indices(key).v[i], {"int"})
    /\ indices("jumping") = List(<<>>)

InRange(key) ==
    \A i \in 1..Len(indices(key).v) :
        0 <= indices(key).v[i].v /\ indices(key).v[i].v < nticks.v

HasRepeat(key) ==
    \E i, j \in 1..Len(indices(key).v) :
        i # j /\ indices(key).v[i].v = indices(key).v[j].v

\* The check got as far as the loop over the three lists of indices.
ParametersTyped ==
    ParametersCalled /\ SizesRule /\ ListsTyped /\ nmers.v <= nticks.v

----------------------------------------------------------------------------
(* C11: the lattice-parameters check returns only if nmers and nticks are  *)
(* integers greater than 0 with nmers <= nticks; with sizes that are       *)
(* integers greater than 0 and lists of the right types it raises the      *)
(* ValueError of the sizes whenever nmers > nticks, and nmers = nticks is  *)
(* accepted when the lists are within the lattice and without repeats.     *)
C11_Sizes ==
    ParametersCalled =>
        /\ raised = NoExc => (SizesRule /\ nmers.v <= nticks.v)
        /\ (SizesRule /\ ListsTyped /\ nmers.v > nticks.v) =>
                raised = Exc("ValueError", "lattice_parameters:nmers", "None")
        /\ ( /\ SizesRule /\ ListsTyped /\ nmers.v = nticks.v
             /\ \A key \in ParameterKeys : InRange(key) /\ ~HasRepeat(key))
            => raised = NoExc

\* As many ticks as the length of the n-mers was accepted.
C11_Witness ==
    /\ ParametersCalled /\ SizesRule /\ ListsTyped
    /\ nmers.v = nticks.v
    /\ raised = NoExc

----------------------------------------------------------------------------
(* C12: past the rules of the types and of the sizes, the check returns    *)
(* only if every value x of adsorbing, desorbing and fixed satisfies       *)
(* 0 <= x < nticks, whatever nmers is, and the ValueError of the range     *)
(* names a list with a value outside; with 5 ticks [0, 4] is accepted and  *)
(* [5] gets the ValueError of the range; three empty lists are accepted.   *)
C12_Range ==
    ParametersTyped =>
        /\ raised = NoExc => \A key \in ParameterKeys : InRange(key)
        /\ raised.site = "lattice_parameters:range" =>
                raised.name \in ParameterKeys /\ ~InRange(raised.name)
        /\ \A key \in ParameterKeys :
            ( /\ nticks.v = 5
              /\ \A key0 \in ParameterKeys \ {key} :
                    indices(key0) = List(<<>>)) =>
                /\ indices(key) = List(<<PyInt(0), PyInt(4)>>) =>
                        raised = NoExc
                /\ indices(key) = List(<<PyInt(5)>>) =>
                        raised = Exc("ValueError", "lattice_parameters:range",
                                     key)
        /\ (\A key \in ParameterKeys : indices(key) = List(<<>>)) =>
                raised = NoExc

\* With 5 ticks and 5-mers, a list of [0, 4] was accepted.
C12_Witness ==
    /\ ParametersTyped
    /\ nticks.v = 5 /\ nmers.v = 5
    /\ \E key \in ParameterKeys : indices(key) = List(<<PyInt(0), PyInt(4)>>)
    /\ raised = NoExc

----------------------------------------------------------------------------
(* C13: past the rules of the types and of the sizes, the ValueError of    *)
(* the uniqueness names a list that is within the lattice and has a        *)
(* repeated value, so a list outside the lattice never gets it, and when   *)
(* the three lists are within the lattice the check raises it exactly when *)
(* one of them has a repeated value.                                       *)
C13_Unique ==
    ParametersTyped =>
        /\ raised.site = "lattice_parameters:unique" =>
                /\ raised.name \in ParameterKeys
                /\ InRange(raised.name)
                /\ HasRepeat(raised.name)
        /\ (\A key \in ParameterKeys : InRange(key)) =>
                /\ raised.site = "lattice_parameters:unique" <=>
                        \E key \in ParameterKeys : HasRepeat(key)
                /\ raised = NoExc <=>
                        \A key \in ParameterKeys : ~HasRepeat(key)

\* With 5 ticks, a list of [1, 1] got the ValueError of the uniqueness.
C13_Witness ==
    /\ ParametersTyped
    /\ nticks.v = 5
    /\ \E key \in ParameterKeys :
        /\ indices(key) = List(<<PyInt(1), PyInt(1)>>)
        /\ raised = Exc("ValueError", "lattice_parameters:unique", key)

----------------------------------------------------------------------------
(* C14: validate() returns on the default configuration with any list in   *)
(* its jumping field, whatever the list holds.                             *)
C14_JumpingUnconstrained ==
    (InValidate /\ Ended /\ JumpingInputs) => raised = NoExc

\* Refuted by a jumping of [0]: validate_list tests the elements of a list
\* that is not empty with isinstance(x, typing.Any), which is a TypeError.

----------------------------------------------------------------------------
(* Vocabulary of the properties of the validators.                         *)

\* The call of the function fn has ended.
Applied(fn) == call.fn = fn /\ result # Pending

\* The call returned True.
Succeeds == result = Ret(TRUE)

\* The sign policy: positive or negative, zero allowed or not.
Positive(n, zero) == IF zero THEN n >= 0 ELSE n > 0
Negative(n, zero) == IF zero THEN n <= 0 ELSE n < 0

----------------------------------------------------------------------------
(* C15: on a number of the expected type, validate_type_positive succeeds  *)
(* exactly when x > 0 with zero=False and when x >= 0 with zero=True, and  *)
(* validate_type_negative exactly when x < 0, resp. x <= 0; so 0 passes    *)
(* both with zero=True and neither with zero=False.                        *)
C15_SignLaw ==
    /\ ( /\ Applied("vgeneral.validate_type_positive")
         /\ IsInstance(call.value, call.dtype))
       => (Succeeds <=> Positive(call.value.v, call.zero))
    /\ ( /\ Applied("vgeneral.validate_type_negative")
         /\ IsInstance(call.value, call.dtype))
       => (Succeeds <=> Negative(call.value.v, call.zero))
    /\ ( /\ Applied("vgeneral.validate_type_positive")
            \/ Applied("vgeneral.validate_type_negative")
         /\ IsInstance(call.value, call.dtype)
         /\ call.value.v = 0)
       => (Succeeds <=> call.zero)

\* A 0 of the expected type passed the negative check with zero=True.
C15_Witness ==
    /\ Applied("vgeneral.validate_type_negative")
    /\ call.value = PyInt(0)
    /\ call.dtype = {"int"}
    /\ call.zero
    /\ Succeeds

----------------------------------------------------------------------------
(* C16: in the strict mode every type+sign check of a scalar raises a      *)
(* TypeError when the type of the value is wrong and a ValueError when the *)
(* type is right and the sign policy fails.                                *)
TypeOf(c) ==
    IF c.fn = "validate_real_positve" THEN {"int", "float"} ELSE c.dtype

SignOf(c) ==
    IF c.fn = "vgeneral.validate_type_negative"
        THEN Negative(c.value.v, c.zero)
    ELSE Positive(c.value.v, c.zero)

\* The failure kinds of the check fn are the two stated ones.
TwoKinds(fn) ==
    (Applied(fn) /\ call.texcept) =>
        /\ ~IsInstance(call.value, TypeOf(call)) =>
                result.exc.kind = "TypeError"
        /\ (IsInstance(call.value, TypeOf(call)) /\ ~SignOf(call)) =>
                result.exc.kind = "ValueError"

C16_EveryCheckTwoKinds ==
    /\ TwoKinds("vgeneral.validate_type_positive")
    /\ TwoKinds("vgeneral.validate_type_negative")
    /\ TwoKinds("validate_real_positve")

(* C16, as the code has it: in the strict mode validate_type_positive and  *)
(* validate_type_negative raise a TypeError when the type of the value is  *)
(* wrong and a ValueError when the type is right and the sign policy       *)
(* fails; validate_real_positve raises a TypeError in both cases.          *)
C16_GeneralChecksTwoKinds ==
    /\ TwoKinds("vgeneral.validate_type_positive")
    /\ TwoKinds("vgeneral.validate_type_negative")
    /\ (Applied("validate_real_positve") /\ call.texcept) =>
            IF IsInstance(call.value, TypeOf(call)) /\ SignOf(call)
                THEN Succeeds
            ELSE result.exc.kind = "TypeError"

\* A real number below 0 got a TypeError from validate_real_positve.
C16_Witness ==
    /\ Applied("validate_real_positve")
    /\ call.texcept
    /\ call.value = PyInt(-1)
    /\ result.exc.kind = "TypeError"

----------------------------------------------------------------------------
(* C18: for dtype a class or a tuple of classes, validate_list reports a   *)
(* value valid exactly when it is a list, it is empty or all its elements  *)
(* are instances of dtype, and length is -1 or the length of the list; an  *)
(* empty list against a length of 2 is not valid.                          *)
ListTyped(c) ==
    /\ c.value.t = "list"
    /\ \/ Len(c.value.v) = 0
       \/ \A i \in 1..Len(c.value.v) : IsInstance(c.value.v[i], c.dtype)

----------------------------------------------------------------------------
(* C17: in the strict mode no validator returns False: a call with         *)
(* texcept=True on a scalar, a list, a 1-D array or a 2-D array either     *)
(* returns True or raises.                                                 *)
C17_StrictNeverFalse ==
    (call.fn # "None" /\ call.texcept /\ result # Pending) =>
        (result.exc # NoExc \/ result.flag)

\* A strict call on a 2-D array with two equal columns raised.
C17_Witness ==
    /\ Applied("v2d.validate_unique_columns")
    /\ call.texcept
    /\ call.value.t = "ndarray"
    /\ call.value.shape = <<2, 2>>
    /\ ColumnsEqual(call.value, 0, 1)
    /\ result.exc.kind = "ValueError"

----------------------------------------------------------------------------
(* C19: validate_shape settles its shape argument first, whatever the mode *)
(* and the array are.  The 1-D check raises a TypeError for a shape that   *)
(* is not an integer and a ValueError for an integer below 0, and goes on  *)
(* to the array for an integer that is 0 or more; the 2-D check raises a   *)
(* TypeError unless the shape is a tuple of two integers above 0, a 0      *)
(* entry included, and goes on to the array otherwise.                     *)
ShapeSites1 == {"validate_type", "validate_type_positive"}
ShapeSites2 ==
    {"_validate_shape:tuple", "_validate_shape:length",
     "_validate_shape:positive"}

\* A tuple of two integers above 0.
ShapePair(shape) ==
    /\ shape.t = "tuple"
    /\ Len(shape.v) = 2
    /\ \A i \in 1..2 : IsInstance(shape.v[i], {"int"}) /\ shape.v[i].v > 0

C19_ShapeArgumentFirst ==
    /\ Applied("v1d.validate_shape") =>
        /\ ~IsInstance(call.shape, {"int"}) =>
                /\ result.exc.kind = "TypeError"
                /\ result.exc.site \in ShapeSites1
        /\ (IsInstance(call.shape, {"int"}) /\ call.shape.v < 0) =>
                /\ result.exc.kind = "ValueError"
                /\ result.exc.site \in ShapeSites1
        /\ (IsInstance(call.shape, {"int"}) /\ call.shape.v >= 0) =>
                result.exc.site \notin ShapeSites1
    /\ Applied("v2d.validate_shape") =>
        /\ ~ShapePair(call.shape) =>
                /\ result.exc.kind = "TypeError"
                /\ result.exc.site \in ShapeSites2
        /\ ShapePair(call.shape) => result.exc.site \notin ShapeSites2

\* In the query mode, a shape of -1 asked of an object that is not an array
\* got the ValueError of the shape.
C19_Witness ==
    /\ Applied("v1d.validate_shape")
    /\ ~call.texcept
    /\ call.shape = PyInt(-1)
    /\ call.value.t # "ndarray"
    /\ result.exc.kind = "ValueError"

----------------------------------------------------------------------------
(* C20: the 1-D and 2-D validate_type_positive and validate_type_negative  *)
(* succeed exactly when the object is an array of the required number of   *)
(* axes and of the required element type and all its elements satisfy the  *)
(* sign policy, strict with zero=False and not strict with zero=True; an   *)
(* array with a 0 among elements above 0 gets a ValueError in the strict   *)
(* mode with zero=False and passes with zero=True.                         *)
SignChecks ==
    {"v1d.validate_type_negative", "v1d.validate_type_positive",
     "v2d.validate_type_negative", "v2d.validate_type_positive"}

Axes(fn) ==
    IF fn \in {"v1d.validate_type_negative", "v1d.validate_type_positive"}
        THEN 1
    ELSE 2

\* The object of the call is an array of the axes and element type asked.
ArrayTyped(c) ==
    /\ c.value.t = "ndarray"
    /\ Len(c.value.shape) = Axes(c.fn)
    /\ c.dtype = {c.value.dtype}

AllSigned(c) ==
    \A i \in 1..Len(c.value.v) :
        IF c.fn \in {"v1d.validate_type_positive",
                     "v2d.validate_type_positive"}
            THEN Positive(c.value.v[i], c.zero)
        ELSE Negative(c.value.v[i], c.zero)

\* The array holds a 0 and, but for it, elements above 0.
ZeroAmongPositive(c) ==
    /\ \E i \in 1..Len(c.value.v) : c.value.v[i] = 0
    /\ \E i \in 1..Len(c.value.v) : c.value.v[i] > 0
    /\ \A i \in 1..Len(c.value.v) : c.value.v[i] >= 0

----------------------------------------------------------------------------
(* C21: the 1-D validate_unique succeeds exactly when the object is a 1-D  *)
(* array whose number of distinct elements is its number of elements; on a *)
(* 1-D array with a repeated element it returns False in the query mode    *)
(* and raises a ValueError in the strict mode.                             *)
OneAxis(value) == value.t = "ndarray" /\ Len(value.shape) = 1

----------------------------------------------------------------------------
(* C22: on a 2-D array validate_unique_rows, resp. validate_unique_columns, *)
(* succeeds exactly when no two distinct rows, resp. columns, are equal    *)
(* element by element, and the index pairs that the failure reports in the *)
(* strict mode are all the pairs (i, j), i < j, of equal rows, resp.       *)
(* columns, not only the first of them.                                    *)
TwoAxes(value) == value.t = "ndarray" /\ Len(value.shape) = 2

\* The pairs (i, j), i < j, of equal rows and of equal columns of the array
\* of the call.
EqualRows ==
    {<<i, j>> : i \in 0..(call.value.shape[1] - 1),
                j \in 0..(call.value.shape[1] - 1)}
        \cap {pair \in Nat \X Nat :
                /\ pair[1] < pair[2]
                /\ \A k \in 0..(call.value.shape[2] - 1) :
                    At(call.value, pair[1], k) = At(call.value, pair[2], k)}

EqualColumns ==
    {<<i, j>> : i \in 0..(call.value.shape[2] - 1),
                j \in 0..(call.value.shape[2] - 1)}
        \cap {pair \in Nat \X Nat :
                /\ pair[1] < pair[2]
                /\ \A k \in 0..(call.value.shape[1] - 1) :
                    At(call.value, k, pair[1]) = At(call.value, k, pair[2])}

C22_UniqueRowsColumns ==
    /\ (Applied("v2d.validate_unique_rows") /\ TwoAxes(call.value)) =>
        /\ Succeeds <=> (EqualRows = {})
        /\ (EqualRows # {} /\ call.texcept) =>
                /\ result.exc.kind = "ValueError"
                /\ result.reported = EqualRows
    /\ (Applied("v2d.validate_unique_columns") /\ TwoAxes(call.value)) =>
        /\ Succeeds <=> (EqualColumns = {})
        /\ (EqualColumns # {} /\ call.texcept) =>
                /\ result.exc.kind = "ValueError"
                /\ result.reported = EqualColumns

----------------------------------------------------------------------------
(* C23: no statement of validate() changes the configuration it is given:  *)
(* from the call to its return or its exception, the mapping, its sections *)
(* in their order, and every leaf with the contents of its lists stay what *)
(* they were.  (_TEMPLATE is a definition that no statement assigns to.)   *)
C23_InputUntouched == [][configuration' = configuration]_vars

\* validate() passed three checks on the configuration and raised in the
\* fourth on a leaf that is a list with contents.
C23_Witness ==
    /\ InValidate
    /\ pc = "raised"
    /\ Len(executed) = 4
    /\ \E key \in {"offsets", "position_start", "position_end"} :
        /\ configuration.v.lattice.v[key].t = "list"
        /\ Len(configuration.v.lattice.v[key].v) = 2
        /\ raised.name = key

----------------------------------------------------------------------------
(* C24: _validate_configuration merges the caller's mapping onto the       *)
(* default configuration field by field.  In the mapping it returns, the   *)
(* sections and their fields are those of the default, every field the     *)
(* caller gives holds the caller's value and every other field holds the   *)
(* default value; the mapping returned has passed validate() as a whole;   *)
(* and the call, returning or raising, leaves the caller's mapping as it   *)
(* was.                                                                    *)
Merged == executed = <<"_validate_configuration">>

\* The caller's mapping gives a value for the field key0 of section key.
Given(key, key0) ==
    /\ key \in DOMAIN call.value.v
    /\ call.value.v[key].t = "dict"
    /\ key0 \in DOMAIN call.value.v[key].v

LeafLevelMerge ==
    /\ configuration.t = "dict"
    /\ DOMAIN configuration.v = DOMAIN _get_configuration.v
    /\ \A key \in DOMAIN configuration.v :
        /\ configuration.v[key].t = "dict"
        /\ DOMAIN configuration.v[key].v = DOMAIN _get_configuration.v[key].v
        /\ \A key0 \in DOMAIN configuration.v[key].v :
            configuration.v[key].v[key0] =
                IF Given(key, key0)
                    THEN call.value.v[key].v[key0]
                ELSE _get_configuration.v[key].v[key0]

C24_LeafLevelMerge ==
    /\ [](( Merged /\ pc = "returned") =>
            /\ LeafLevelMerge
            /\ parameters_validate(configuration) = NoExc)
    /\ [][call' = call]_vars

\* The call returned the default configuration with the height and the
\* width of the box replaced by the caller's.
C24_Witness ==
    /\ Merged
    /\ pc = "returned"
    /\ "box" \in DOMAIN call.value.v
    /\ call.value.v.box.v = [height |-> PyInt(MaxNum), width |-> PyFloat(1)]
    /\ configuration.v.box.v.height = PyInt(MaxNum)
    /\ configuration.v.box.v.position_top = List(<<PyInt(0), PyInt(0)>>)
    /\ configuration.v.lattice = _get_configuration.v.lattice

----------------------------------------------------------------------------
(* C25: every configuration validate() accepts satisfies                   *)
(* 0 <= position_start.x <= position_start.x + offsets[0]                  *)
(*   < position_end.x - offsets[1] <= position_end.x <= box.width:         *)
(* the span reduced by the offsets is not empty and lies inside the box.   *)
Accepted == InValidate /\ pc = "returned"

\* position_start.x + offsets[0] and position_end.x - offsets[1]
reduced_left ==
    Add(configuration.v.lattice.v.position_start.v[1],
        configuration.v.lattice.v.offsets.v[1])
reduced_right ==
    Sub(configuration.v.lattice.v.position_end.v[1],
        configuration.v.lattice.v.offsets.v[2])

\* a <= b and a < b among numbers: False when one of them is not a number.
LessEqual(a, b) == a # NaN /\ b # NaN /\ a <= b
Less(a, b) == a # NaN /\ b # NaN /\ a < b

C25_ReducedSpanInsideBox ==
    Accepted =>
        /\ LessEqual(0, start_x)
        /\ LessEqual(start_x, reduced_left)
        /\ Less(reduced_left, reduced_right)
        /\ LessEqual(reduced_right, end_x)
        /\ LessEqual(end_x, box_width)

----------------------------------------------------------------------------
(* C26: in every configuration validate() accepts, adsorbing, desorbing    *)
(* and fixed have at most nticks entries each; and the rules of the lists  *)
(* are rules of each list on its own: when the last check is reached with  *)
(* valid sizes and every list is within the lattice and without repeats,   *)
(* the configuration is accepted, whether or not two lists share an index. *)
\* validate() ran all its checks.
RanAll == Ended /\ executed = ValidateOrder

\* Two of the three lists hold the same index.
SharedIndex ==
    \E key, key0 \in ParameterKeys :
        /\ key # key0
        /\ \E i \in 1..Len(indices(key).v), j \in 1..Len(indices(key0).v) :
            indices(key).v[i].v = indices(key0).v[j].v

C26_AtMostNticks ==
    /\ Accepted =>
        \A key \in ParameterKeys : Len(indices(key).v) <= nticks.v
    /\ ( /\ RanAll
         /\ SizesRule /\ nmers.v <= nticks.v
         /\ ListsTyped
         /\ \A key \in ParameterKeys : InRange(key) /\ ~HasRepeat(key)) =>
            pc = "returned"

\* An accepted configuration with the index 0 in two lists, one of which
\* has as many entries as there are ticks.
C26_Witness ==
    /\ Accepted
    /\ SharedIndex
    /\ \E key \in ParameterKeys : Len(indices(key).v) = nticks.v

----------------------------------------------------------------------------
(* C27: the two modes of a validator agree.  On arguments whose control    *)
(* arguments are well formed (a shape the shape check accepts, element     *)
(* types that are classes), the call in the query mode returns without     *)
(* raising, it returns False exactly when the call in the strict mode on   *)
(* the same arguments raises, and True exactly when that call returns      *)
(* True.                                                                   *)
\* What the validator of the call c ends with in the mode texcept.
InMode(c, texcept) ==
    CASE c.fn = "vgeneral.validate_type" ->
            vgeneral_validate_type(c.value, c.dtype, texcept)
      [] c.fn = "vgeneral.validate_type_negative" ->
            vgeneral_validate_type_negative(c.value, c.dtype, c.zero, texcept)
      [] c.fn = "vgeneral.validate_type_positive" ->
            vgeneral_validate_type_positive(c.value, c.dtype, c.zero, texcept)
      [] c.fn = "validate_real_positve" ->
            validate_real_positve(c.value, c.zero, "None", texcept)
      [] c.fn = "validate_list" ->
            validate_list(c.value, c.dtype, c.length, "None", texcept)
      [] c.fn = "v1d.validate_ndarray" ->
            v1d_validate_ndarray(c.value, texcept)
      [] c.fn = "v1d.validate_shape" ->
            v1d_validate_shape(c.value, c.shape, texcept)
      [] c.fn = "v1d.validate_type" ->
            v1d_validate_type(c.value, c.dtype, texcept)
      [] c.fn = "v1d.validate_type_negative" ->
            v1d_validate_type_negative(c.value, c.dtype, c.zero, texcept)
      [] c.fn = "v1d.validate_type_positive" ->
            v1d_validate_type_positive(c.value, c.dtype, c.zero, texcept)
      [] c.fn = "v1d.validate_unique" ->
            v1d_validate_unique(c.value, texcept)
      [] c.fn = "v2d.validate_ndarray" ->
            v2d_validate_ndarray(c.value, texcept)
      [] c.fn = "v2d.validate_shape" ->
            v2d_validate_shape(c.value, c.shape, texcept)
      [] c.fn = "v2d.validate_type" ->
            v2d_validate_type(c.value, c.dtype, texcept)
      [] c.fn = "v2d.validate_type_negative" ->
            v2d_validate_type_negative(c.value, c.dtype, c.zero, texcept)
      [] c.fn = "v2d.validate_type_positive" ->
            v2d_validate_type_positive(c.value, c.dtype, c.zero, texcept)
      [] c.fn = "v2d.validate_unique_columns" ->
            v2d_validate_unique_columns(c.value, texcept)
      [] c.fn = "v2d.validate_unique_entries" ->
            v2d_validate_unique_entries(c.value, texcept)
      [] c.fn = "v2d.validate_unique_rows" ->
            v2d_validate_unique_rows(c.value, texcept)

\* The control arguments of the call are well formed.
WellFormed(c) ==
    /\ c.dtype # typing_Any
    /\ c.fn = "v1d.validate_shape" =>
            IsInstance(c.shape, {"int"}) /\ c.shape.v >= 0
    /\ c.fn = "v2d.validate_shape" => ShapePair(c.shape)

C27_ModesAgree ==
    (call.fn # "None" /\ result # Pending /\ ~call.texcept
        /\ WellFormed(call)) =>
        /\ result.exc = NoExc
        /\ ~result.flag <=> InMode(call, TRUE).exc # NoExc
        /\ result.flag <=> InMode(call, TRUE) = Ret(TRUE)

----------------------------------------------------------------------------
(* C28: the outcome of validate() does not depend on an iteration order:   *)
(* whether it raises and the kind of the exception are the same for every  *)
(* order of the key sets of the lattice check and of the lattice-          *)
(* parameters check and for every order of the entries of the mapping.     *)
\* The kinds the n-th statement of validate() can end with on C.
KindsAt(n, C) == {exc.kind : exc \in CheckOutcomes(n, C)}

\* The mapping C with its entries in every order of the inputs.
Reordered(C) ==
    IF C.t = "dict" /\ DOMAIN C.v = DOMAIN _TEMPLATE
        THEN {ODict(order, C.v) : order \in SchemaOrders}
    ELSE {C}

\* The statements that iterate over a set of keys.
SetLoops == {4, 6}

\* The kind does not depend on the order of the key sets.
KeySetOrderFree ==
    \A n \in SetLoops :
        (InValidate /\ Len(executed) >= n) =>
            /\ Cardinality(KindsAt(n, configuration)) = 1
            /\ (Ended /\ Len(executed) = n) =>
                    raised.kind \in KindsAt(n, configuration)

C28_OrderFree ==
    /\ KeySetOrderFree
    /\ InValidate =>
        \A C \in Reordered(configuration) :
            _validate_general(C).kind = _validate_general(configuration).kind

(* C28, amended: the order of the key sets changes neither whether         *)
(* validate() raises nor the kind of the exception, and the order of the   *)
(* entries of the mapping does not change whether it raises (the kind of a *)
(* schema failure is left to the order of the mapping).                    *)
C28_KeySetOrderFree ==
    /\ KeySetOrderFree
    /\ InValidate =>
        \A C \in Reordered(configuration) :
            (_validate_general(C) = NoExc)
                <=> (_validate_general(configuration) = NoExc)

\* The lattice check raised on a lattice with a negative entry in two of
\* the three fields, which it reports in the order of the iteration.
C28_Witness ==
    /\ InValidate
    /\ pc = "raised"
    /\ Len(executed) = 4
    /\ raised.site = "lattice:positive"
    /\ \E key \in LatticeKeys :
        /\ key # raised.name
        /\ ~_lattice_all_positive(configuration.v.lattice.v[key])

----------------------------------------------------------------------------
(* C29: merging lets no unknown name through.  When the caller's mapping   *)
(* holds a section or a field that the default configuration does not      *)
(* have, _validate_configuration does not return: a mapping whose only     *)
(* section is unknown ends with the KeyError of the lookup in the merge,   *)
(* and a mapping whose only section is a known one with an unknown field   *)
(* ends with the ValueError of the key sets of the schema check.           *)
UnknownSection(key) ==
    /\ key \in DOMAIN call.value.v
    /\ key \notin DOMAIN _get_configuration.v

UnknownField(key) ==
    /\ key \in DOMAIN call.value.v
    /\ key \in DOMAIN _get_configuration.v
    /\ call.value.v[key].t = "dict"
    /\ ~(DOMAIN call.value.v[key].v
            \subseteq DOMAIN _get_configuration.v[key].v)

C29_NoUnknownName ==
    (Merged /\ call.value.t = "dict") =>
        \A key \in DOMAIN call.value.v :
            /\ (UnknownSection(key) \/ UnknownField(key)) =>
                    pc = "raised" /\ raised # NoExc
            /\ ( /\ UnknownSection(key)
                 /\ call.value.order = <<key>>
                 /\ call.value.v[key].t = "dict") =>
                    /\ raised.kind = "KeyError"
                    /\ raised.site = "merge:section"
            /\ (UnknownField(key) /\ call.value.order = <<key>>) =>
                    /\ raised.kind = "ValueError"
                    /\ raised.site = "general:entry_keys"

----------------------------------------------------------------------------
(* C30: a Boolean counts as an integer in the type checks.  In a field     *)
(* declared (float, int) or int a Boolean leaf is to the schema check and  *)
(* to the box check what the integer of its value is, True being 1 and     *)
(* False being 0: box.height = True passes the schema check and the        *)
(* strictly positive check, box.height = False passes the schema check and *)
(* fails the strictly positive check; and vacancies_visible takes a        *)
(* Boolean only, the integers 0 and 1 being refused by the schema check.   *)
\* The configuration C with 1 for True and 0 for False in the fields that
\* are declared to take an integer.
AsInt(C) ==
    IF C.t # "dict"
        THEN C
    ELSE [C EXCEPT !.v = [key \in DOMAIN C.v |->
            IF C.v[key].t # "dict" \/ key \notin DOMAIN _TEMPLATE
                THEN C.v[key]
            ELSE [C.v[key] EXCEPT !.v = [key0 \in DOMAIN C.v[key].v |->
                    IF /\ key0 \in DOMAIN _TEMPLATE[key]
                       /\ "int" \in _TEMPLATE[key][key0]
                       /\ C.v[key].v[key0].t = "bool"
                        THEN PyInt(C.v[key].v[key0].v)
                    ELSE C.v[key].v[key0]]]]]

\* vacancies_visible is there and is not a Boolean.
VisibleNotBool ==
    /\ TopLevelShape(configuration)
    /\ configuration.v.lattice_elements.t = "dict"
    /\ "vacancies_visible" \in DOMAIN configuration.v.lattice_elements.v
    /\ configuration.v.lattice_elements.v.vacancies_visible.t # "bool"

C30_BooleanLeaves ==
    InValidate =>
        /\ _validate_general(configuration)
                = _validate_general(AsInt(configuration))
        /\ Len(executed) >= 2 =>
            /\ _validate_params_box(configuration.v.box)
                    = _validate_params_box(AsInt(configuration).v.box)
            /\ configuration.v.box.v.height = PyBool(TRUE) =>
                    raised.name # "box[height]"
            /\ configuration.v.box.v.height = PyBool(FALSE) =>
                    /\ pc = "raised"
                    /\ raised.name \in {"box[position_top]", "box[height]"}
        /\ VisibleNotBool =>
            /\ pc = "raised"
            /\ executed = <<"_validate_general">>

\* validate() accepted a configuration whose box.height is True.
C30_Witness ==
    /\ Accepted
    /\ configuration.v.box.v.height = PyBool(TRUE)
    /\ configuration.v.lattice_elements.v.vacancies_visible = PyBool(TRUE)

====
